---- MODULE Spec2Model ----
(***************************************************************************)
(* MOSS agent loop: the resource ledger (EconomyTracker), the survival     *)
(* tier classification, and the heartbeat scheduler (HeartbeatDaemon) with *)
(* its task registry, wake dispatch and event history.                     *)
(*                                                                         *)
(* JavaScript runs handlers to completion: a handler is interrupted only   *)
(* at an await on real I/O.  The model gives every suspension point its    *)
(* own step; code between two suspension points is executed while the      *)
(* variable cur names the tick that holds the thread, and no other handler *)
(* may start while cur is set.                                             *)
(***************************************************************************)
EXTENDS Integers, Sequences, FiniteSets, TLC

\* ------------------------------------------------------------------------
\* Bounds of the model
\* ------------------------------------------------------------------------
MaxOps == 3
MaxTicks == 2
RestartTicks == 4
EconomyTicks == 2
EconomyOps == 2
FaultTicks == 2
HangTicks == 2
ThinkTicks == 2
ThinkOps == 1
LiveTicks == 3
NotifyTicks == 2
MostRatio == 4
PluginTicks == 2
MaxCalls == 3
MaxLogs == 3
CommandOps == 2
QueryLen == 12
EventTicks == 2
MaxPast == 22
CapOps == 3
ShortBy == 2
ExpenseOps == 3

\* The most ticks any run starts.
MostTicks ==
    IF MaxTicks >= RestartTicks /\ MaxTicks >= EconomyTicks THEN MaxTicks
    ELSE IF RestartTicks >= EconomyTicks THEN RestartTicks
    ELSE EconomyTicks

\* ------------------------------------------------------------------------
\* Program constants
\* ------------------------------------------------------------------------
RichThreshold == 1000000
NormalThreshold == 200000
TightThreshold == 50000
DangerThreshold == 10000
HibernateThreshold == 0
NoiseThreshold == 1000
MaxLedger == 500

\* The amounts the callers pass: tokens, and currency in cents.
IncomeInputs ==
    { [ tokens |-> 250000, usd |-> 0 ], [ tokens |-> 1000000, usd |-> 0 ],
      [ tokens |-> 0, usd |-> 1 ] }
ExpenseInputs ==
    { [ tokens |-> 500, usd |-> 0 ], [ tokens |-> 200000, usd |-> 0 ],
      [ tokens |-> 241000, usd |-> 0 ], [ tokens |-> 0, usd |-> 1 ] }
\* The calendar dates the wall clock goes through.
Days == {1, 2}

\* The callers of save(): a tick (by its number) or, as 0, a command, a tool
\* or the service's stop().
External == 0
Savers == { External } \cup (1..MostTicks)

VARIABLES
    economy,   \* the EconomyTracker instance: [state, dirty]
    disk,      \* the ledger file economy.json: [kind, doc]
    clock,     \* the calendar date of the wall clock
    saves,     \* the calls of save() in progress, by caller: [pc, doc]
    nOps,      \* number of ledger mutations so far (bounds the run)
    undetected,\* history: the tier before the last degradation that
               \* economy-check has not seen yet, or "none"
    lastMutation, \* history: the last mutation since economy-check ran,
               \* [kind, from, to]
    appended,  \* history: the entries of the ledger file followed by all
               \* the entries appended to the ledger since
    running,   \* HeartbeatDaemon.running
    timer,     \* HeartbeatDaemon.timer: a timer handle, or 0 for null
    timers,    \* the timers armed in the event loop (handles)
    tickCount, \* HeartbeatDaemon.tickCount
    tasks,     \* HeartbeatDaemon.tasks
    recentEvents, \* HeartbeatDaemon.recentEvents
    ticks,     \* the executions of tick(), by the number they began with
    cur,       \* the tick that holds the thread, or 0
    runtime,   \* the capabilities of the host: [enqueue, runCommand, telegram]
    inbox,     \* the messages enqueued into the agent inbox
    commands,  \* the immediate trigger commands issued
    notifications, \* the direct notifications sent
    wakes,     \* history: the calls of wakeAgent, [task, urgent, message]
    service,   \* the service: "idle", "loading", "started" or "stopped"
    pendingTasks, \* index.ts pendingTasks: tasks submitted with no daemon
    tickets,   \* history: the calls of the registration API, each the
               \* [op, name, task, direct, value] of a call, value its result
    lastRegistered, \* history: by name, the task of the last
               \* daemon.registerTask call not unregistered since, or NoTask
    decisionDir, \* data/decisions: [exists, files], files by day the lines
               \* of <day>.jsonl
    logCalls,  \* the calls of DecisionLogger.log, by caller:
               \* [pc, decision, result]
    stamps,    \* the number of "new Date()" taken by log(): its clock
    logged,    \* history: the decisions appended to a file, in the order
               \* the appends took effect
    reply,     \* what the last /moss command or moss_ledger call answered:
               \* [command, arg, count, rejected, entries]
    pluginConfig \* HeartbeatDaemon.opts.config:
               \* [heartbeatIntervalMs, thinkIntervalMs]

ledgerVars == <<economy, disk, clock, saves, nOps, undetected, lastMutation,
                appended>>
decisionVars == <<decisionDir, logCalls, stamps, logged>>
otherVars == <<decisionVars, reply, pluginConfig>>
pluginVars == <<service, pendingTasks, tickets, lastRegistered, otherVars>>
schedVars == <<running, timer, timers, tickCount, tasks, recentEvents, ticks,
               cur, runtime, inbox, commands, notifications, wakes, pluginVars>>
vars == <<ledgerVars, schedVars>>

\* ------------------------------------------------------------------------
\* Survival tiers
\* ------------------------------------------------------------------------
tierOrder == <<"rich", "normal", "tight", "danger", "hibernate">>

TierIndex(t) == CHOOSE i \in 1..Len(tierOrder) : tierOrder[i] = t

tierWorse(current, previous) == TierIndex(current) > TierIndex(previous)

\* ------------------------------------------------------------------------
\* EconomyTracker
\* ------------------------------------------------------------------------
createDefaultState(day) ==
    [ balance |-> [ tokenCredits |-> 0, usdcBalance |-> 0,
                    survivalTier |-> "normal", previousTier |-> "normal" ],
      totals  |-> [ lifetimeTokensEarned |-> 0, lifetimeTokensSpent |-> 0,
                    lifetimeUsdcEarned |-> 0, lifetimeUsdcSpent |-> 0 ],
      today   |-> [ date |-> day, tokensEarned |-> 0, tokensSpent |-> 0,
                    usdcEarned |-> 0, usdcSpent |-> 0, llmCalls |-> 0 ],
      ledger  |-> << >>,
      config  |-> [ survivalThresholds |->
                      [ rich |-> RichThreshold, normal |-> NormalThreshold,
                        tight |-> TightThreshold, danger |-> DangerThreshold,
                        hibernate |-> HibernateThreshold ] ] ]

\* new EconomyTracker(dataDir, logger)
NewTracker(day) == [ state |-> createDefaultState(day), dirty |-> FALSE ]

\* A variant of rolloverDay without the comparison of the dates.
rolloverDay_Always(t, day) ==
    [ t EXCEPT !.state.today =
                   [ date |-> day, tokensEarned |-> 0, tokensSpent |-> 0,
                     usdcEarned |-> 0, usdcSpent |-> 0, llmCalls |-> 0 ],
               !.dirty = TRUE ]

rolloverDay(t, day) ==
    IF t.state.today.date # day
    THEN [ t EXCEPT !.state.today =
                        [ date |-> day, tokensEarned |-> 0, tokensSpent |-> 0,
                          usdcEarned |-> 0, usdcSpent |-> 0, llmCalls |-> 0 ],
                    !.dirty = TRUE ]
    ELSE t

updateTier(t) ==
    LET balance == t.state.balance.tokenCredits
        thresholds == t.state.config.survivalThresholds
        tier == IF balance >= thresholds.rich THEN "rich"
                ELSE IF balance >= thresholds.normal THEN "normal"
                ELSE IF balance >= thresholds.tight THEN "tight"
                ELSE IF balance >= thresholds.danger THEN "danger"
                ELSE "hibernate"
    IN  [ t EXCEPT !.state.balance.previousTier = t.state.balance.survivalTier,
                   !.state.balance.survivalTier = tier ]

\* A variant of appendLedger that, at the cap, drops the entry it was given.
appendLedger_DropsNewest(t, partial) ==
    LET pushed == Append(t.state.ledger, partial)
    IN  [ t EXCEPT !.state.ledger =
              IF Len(pushed) > MaxLedger THEN SubSeq(pushed, 1, MaxLedger)
              ELSE pushed ]

appendLedger(t, partial) ==
    LET pushed == Append(t.state.ledger, partial)
    IN  [ t EXCEPT !.state.ledger =
              IF Len(pushed) > MaxLedger
              THEN SubSeq(pushed, Len(pushed) - MaxLedger + 1, Len(pushed))
              ELSE pushed ]

recordIncome(t, type, tokens, usd, day) ==
    LET r == rolloverDay(t, day)
        a == [ r EXCEPT !.state.balance.tokenCredits = @ + tokens,
                        !.state.balance.usdcBalance = @ + usd,
                        !.state.totals.lifetimeTokensEarned = @ + tokens,
                        !.state.totals.lifetimeUsdcEarned = @ + usd,
                        !.state.today.tokensEarned = @ + tokens,
                        !.state.today.usdcEarned = @ + usd ]
        l == appendLedger(a, [ type |-> type, direction |-> "income",
                               amount |-> IF tokens # 0 THEN tokens ELSE usd,
                               unit |-> IF tokens # 0 THEN "tokens" ELSE "usd" ])
    IN  [ updateTier(l) EXCEPT !.dirty = TRUE ]

\* recordExpense without the "lifetimeTokensSpent += tokens" line.
recordExpense_NoLifetimeSpent(t, type, tokens, usd, day) ==
    LET r == rolloverDay(t, day)
        a == [ r EXCEPT !.state.balance.tokenCredits = @ - tokens,
                        !.state.today.tokensSpent = @ + tokens,
                        !.state.today.usdcSpent = @ + usd,
                        !.state.today.llmCalls = @ + 1 ]
        l == IF tokens > NoiseThreshold \/ usd > 0
             THEN appendLedger(a, [ type |-> type, direction |-> "expense",
                                    amount |-> IF tokens # 0 THEN tokens ELSE usd,
                                    unit |-> IF tokens # 0 THEN "tokens" ELSE "usd" ])
             ELSE a
    IN  [ updateTier(l) EXCEPT !.dirty = TRUE ]

\* A variant of recordExpense whose noise filter lets an expense of exactly
\* the threshold through.
recordExpense_AtThreshold(t, type, tokens, usd, day) ==
    LET r == rolloverDay(t, day)
        a == [ r EXCEPT !.state.balance.tokenCredits = @ - tokens,
                        !.state.totals.lifetimeTokensSpent = @ + tokens,
                        !.state.today.tokensSpent = @ + tokens,
                        !.state.today.usdcSpent = @ + usd,
                        !.state.today.llmCalls = @ + 1 ]
        l == IF tokens >= NoiseThreshold \/ usd > 0
             THEN appendLedger(a, [ type |-> type, direction |-> "expense",
                                    amount |-> IF tokens # 0 THEN tokens ELSE usd,
                                    unit |-> IF tokens # 0 THEN "tokens" ELSE "usd" ])
             ELSE a
    IN  [ updateTier(l) EXCEPT !.dirty = TRUE ]

recordExpense(t, type, tokens, usd, day) ==
    LET r == rolloverDay(t, day)
        a == [ r EXCEPT !.state.balance.tokenCredits = @ - tokens,
                        !.state.totals.lifetimeTokensSpent = @ + tokens,
                        !.state.today.tokensSpent = @ + tokens,
                        !.state.today.usdcSpent = @ + usd,
                        !.state.today.llmCalls = @ + 1 ]
        l == IF tokens > NoiseThreshold \/ usd > 0
             THEN appendLedger(a, [ type |-> type, direction |-> "expense",
                                    amount |-> IF tokens # 0 THEN tokens ELSE usd,
                                    unit |-> IF tokens # 0 THEN "tokens" ELSE "usd" ])
             ELSE a
    IN  [ updateTier(l) EXCEPT !.dirty = TRUE ]

refresh(t, day) == rolloverDay(t, day)

\* A variant of load that takes what it can read of a file for the state.
load_NoFallback(file, day) ==
    IF file.kind # "none"
    THEN rolloverDay([ state |-> file.doc, dirty |-> FALSE ], day)
    ELSE NewTracker(day)

\* load() on a freshly constructed tracker: the file's document when it can
\* be read and parsed, the default state otherwise.
load(file, day) ==
    IF file.kind = "doc"
    THEN rolloverDay([ state |-> file.doc, dirty |-> FALSE ], day)
    ELSE NewTracker(day)

\* The tier table of the README: rich >= 1M, normal >= 200K, tight >= 50K,
\* danger >= 10K, hibernate below.
TierOfBalance(b) ==
    IF b >= 1000000 THEN "rich"
    ELSE IF b >= 200000 THEN "normal"
    ELSE IF b >= 50000 THEN "tight"
    ELSE IF b >= 10000 THEN "danger"
    ELSE "hibernate"

getSurvivalTier(t) == t.state.balance.survivalTier
getPreviousTier(t) == t.state.balance.previousTier

\* ------------------------------------------------------------------------
\* Ledger operations as steps
\* ------------------------------------------------------------------------
NoFile(day) == [ kind |-> "none", doc |-> createDefaultState(day) ]
CorruptFile(day) == [ kind |-> "corrupt", doc |-> createDefaultState(day) ]

\* The file an earlier run saved after it was paid 250,000 tokens.
FundedFile(day) ==
    [ kind |-> "doc",
      doc |-> recordIncome(NewTracker(day), "boss_task_reward", 250000, 0, day).state ]

\* The file an earlier run saved on the day before, after an expense took
\* the balance from 250,000 to 9,000.
StaleFile(day) ==
    [ kind |-> "doc",
      doc |-> recordExpense(recordIncome(NewTracker(day - 1), "boss_task_reward",
                                         250000, 0, day - 1),
                            "llm_inference", 241000, 0, day - 1).state ]

\* An entry of the ledger of an earlier run: a reward of k tokens.
pastEntry(k) ==
    [ type |-> "boss_task_reward", direction |-> "income", amount |-> k,
      unit |-> "tokens" ]

\* The file an earlier run saved after n rewards of 1, 2, ..., n tokens.
LongFile(n, day) ==
    LET sum == (n * (n + 1)) \div 2
        t == NewTracker(day)
    IN  [ kind |-> "doc",
          doc |-> updateTier(
                    [ t EXCEPT !.state.ledger = [ k \in 1..n |-> pastEntry(k) ],
                               !.state.balance.tokenCredits = sum,
                               !.state.totals.lifetimeTokensEarned = sum,
                               !.state.today.tokensEarned = sum ]).state ]

\* The file of FundedFile cut short by a failed write, and the same file
\* without the permission to read it.
TornFile(day) == [ kind |-> "corrupt", doc |-> FundedFile(day).doc ]
UnreadableFile(day) == [ kind |-> "unreadable", doc |-> FundedFile(day).doc ]

IdleSave(day) == [ pc |-> "idle", doc |-> createDefaultState(day) ]

NoMutation == [ kind |-> "none", from |-> "normal", to |-> "normal" ]

InitEconomy(files) ==
    /\ clock = 1
    /\ disk \in files
    /\ economy = load(disk, 1)
    /\ saves = [ c \in Savers |-> IdleSave(1) ]
    /\ nOps = 0
    /\ undetected = "none"
    /\ lastMutation = NoMutation
    /\ appended = economy.state.ledger

\* History of degradations: a mutation that makes the stored tier strictly
\* worse leaves the tier it had before.
noteDegradation(before, after) ==
    undetected' = IF tierWorse(getSurvivalTier(after), getSurvivalTier(before))
                  THEN getSurvivalTier(before)
                  ELSE undetected

\* History of the last mutation: its kind and the stored tier before and
\* after it.
noteMutation(kind, before, after) ==
    lastMutation' = [ kind |-> kind, from |-> getSurvivalTier(before),
                      to |-> getSurvivalTier(after) ]

\* History of the ledger: the entry a recordIncome call appends, and the
\* entry a recordExpense call appends when the expense is above the noise
\* threshold or in currency.
entryOf(type, direction, e) ==
    [ type |-> type, direction |-> direction,
      amount |-> IF e.tokens # 0 THEN e.tokens ELSE e.usd,
      unit |-> IF e.tokens # 0 THEN "tokens" ELSE "usd" ]

noteIncome(type, e) ==
    appended' = Append(appended, entryOf(type, "income", e))

noteExpense(type, e) ==
    appended' = IF e.tokens > NoiseThreshold \/ e.usd > 0
                THEN Append(appended, entryOf(type, "expense", e))
                ELSE appended

\* save(): "if (!this.dirty) return", else suspend at mkdir.
saveCall(c) ==
    saves' = IF economy.dirty
             THEN [ saves EXCEPT ![c].pc = "mkdir" ]
             ELSE saves

\* mkdir returned: stamp the state and call writeFile with the serialized
\* state; a failure goes to the catch block, which only logs.
saveMkdirDone(c, ok) ==
    saves' = IF ok
             THEN [ saves EXCEPT ![c] = [ pc |-> "write", doc |-> economy.state ] ]
             ELSE [ saves EXCEPT ![c].pc = "idle" ]

\* A variant of the return of writeFile that clears the dirty flag whether
\* the write succeeded or not.
saveWriteDone_ClearsAnyway(c, ok, partial) ==
    /\ saves' = [ saves EXCEPT ![c] = IdleSave(1) ]
    /\ economy' = [ economy EXCEPT !.dirty = FALSE ]
    /\ disk' = IF ok THEN [ kind |-> "doc", doc |-> saves[c].doc ]
               ELSE IF partial THEN CorruptFile(1)
               ELSE disk

\* writeFile returned: clear the dirty flag on success.  A failed write
\* leaves the old file or a partial one.
saveWriteDone(c, ok, partial) ==
    /\ saves' = [ saves EXCEPT ![c] = IdleSave(1) ]
    /\ economy' = IF ok THEN [ economy EXCEPT !.dirty = FALSE ] ELSE economy
    /\ disk' = IF ok THEN [ kind |-> "doc", doc |-> saves[c].doc ]
               ELSE IF partial THEN CorruptFile(1)
               ELSE disk

RecordIncomeOf(inputs, limit) ==
    /\ cur = 0
    /\ nOps < limit
    /\ \E e \in inputs :
          /\ economy' = recordIncome(economy, "boss_task_reward", e.tokens, e.usd,
                                     clock)
          /\ noteIncome("boss_task_reward", e)
    /\ noteDegradation(economy, economy')
    /\ noteMutation("income", economy, economy')
    /\ nOps' = nOps + 1
    /\ UNCHANGED <<disk, clock, saves>>
    /\ UNCHANGED schedVars

RecordExpenseOf(inputs, limit) ==
    /\ cur = 0
    /\ nOps < limit
    /\ \E e \in inputs :
          /\ economy' = recordExpense(economy, "llm_inference", e.tokens, e.usd,
                                      clock)
          /\ noteExpense("llm_inference", e)
    /\ noteDegradation(economy, economy')
    /\ noteMutation("expense", economy, economy')
    /\ nOps' = nOps + 1
    /\ UNCHANGED <<disk, clock, saves>>
    /\ UNCHANGED schedVars

RecordIncome == RecordIncomeOf(IncomeInputs, MaxOps)

RecordExpense == RecordExpenseOf(ExpenseInputs, MaxOps)

Refresh ==
    /\ economy' = refresh(economy, clock)
    /\ UNCHANGED <<disk, clock, saves, nOps, appended, undetected, lastMutation>>
    /\ UNCHANGED schedVars

\* The service is started again: a new tracker is constructed and loaded.
Load ==
    /\ \A c \in Savers : saves[c].pc = "idle"
    /\ economy' = load(disk, clock)
    /\ undetected' = "none"
    /\ lastMutation' = NoMutation
    /\ appended' = economy'.state.ledger
    /\ UNCHANGED <<disk, clock, saves, nOps>>
    /\ UNCHANGED schedVars

Save ==
    /\ saves[External].pc = "idle"
    /\ saveCall(External)
    /\ UNCHANGED <<economy, disk, clock, nOps, appended, undetected, lastMutation>>
    /\ UNCHANGED schedVars

SaveMkdirDone ==
    /\ cur = 0
    /\ saves[External].pc = "mkdir"
    /\ \E ok \in BOOLEAN : saveMkdirDone(External, ok)
    /\ UNCHANGED <<economy, disk, clock, nOps, appended, undetected, lastMutation>>
    /\ UNCHANGED schedVars

SaveWriteDone ==
    /\ cur = 0
    /\ saves[External].pc = "write"
    /\ \E ok \in BOOLEAN, partial \in BOOLEAN : saveWriteDone(External, ok, partial)
    /\ UNCHANGED <<clock, nOps, appended, undetected, lastMutation>>
    /\ UNCHANGED schedVars

DayPasses ==
    /\ clock + 1 \in Days
    /\ clock' = clock + 1
    /\ UNCHANGED <<economy, disk, saves, nOps, appended, undetected, lastMutation>>
    /\ UNCHANGED schedVars

\* ------------------------------------------------------------------------
\* Heartbeat tasks
\* ------------------------------------------------------------------------
\* The plugin configuration: DEFAULT_CONFIG overridden by api.pluginConfig.
config == [ heartbeatIntervalMs |-> 60000, thinkIntervalMs |-> 3600000 ]

\* Math.round of a quotient of positive integers.
Round(x, y) == (2 * x + y) \div (2 * y)

Max(a, b) == IF a >= b THEN a ELSE b

NoMessage == << >>
NoResult == [ shouldWake |-> FALSE, urgent |-> FALSE, message |-> NoMessage ]

createEconomyCheckTask ==
    [ name |-> "economy-check", intervalTicks |-> 1, run |-> "economyCheck" ]

\* A variant of economy-check's run() whose wake is not urgent.
economyCheckRun_NotUrgent(t) ==
    LET tier == getSurvivalTier(t)
        prevTier == getPreviousTier(t)
    IN  IF tier # prevTier /\ tierWorse(tier, prevTier)
        THEN [ shouldWake |-> TRUE, urgent |-> FALSE,
               message |-> <<"degraded", prevTier, tier>> ]
        ELSE NoResult

\* economy-check's run(), after its refresh().
economyCheckRun(t) ==
    LET tier == getSurvivalTier(t)
        prevTier == getPreviousTier(t)
    IN  IF tier # prevTier /\ tierWorse(tier, prevTier)
        THEN [ shouldWake |-> TRUE, urgent |-> TRUE,
               message |-> <<"degraded", prevTier, tier>> ]
        ELSE NoResult

createThinkingTask(opts) ==
    [ name |-> "periodic-thinking",
      intervalTicks |-> Max(1, Round(opts.thinkIntervalMs, opts.heartbeatIntervalMs)),
      run |-> "thinking" ]

thinkingRun(t) ==
    LET tier == getSurvivalTier(t)
    IN  IF tier = "danger" \/ tier = "hibernate"
        THEN NoResult
        ELSE [ shouldWake |-> TRUE, urgent |-> FALSE,
               message |-> <<"think", tier>> ]

\* Tasks of other plugins, registered through registerTask.
probeTask == [ name |-> "probe", intervalTicks |-> 1, run |-> "probe" ]
reportTask == [ name |-> "report", intervalTicks |-> 2, run |-> "report" ]
auditTask == [ name |-> "audit", intervalTicks |-> 1, run |-> "probe" ]
probeLater == [ name |-> "probe", intervalTicks |-> 2, run |-> "probe" ]

Names == { "economy-check", "periodic-thinking", "probe", "report", "audit" }

\* What the run() of such a task may do: return a result, or throw.
Throws == [ shouldWake |-> FALSE, urgent |-> FALSE, message |-> <<"throws">> ]
Alert(urgent) == [ shouldWake |-> TRUE, urgent |-> urgent, message |-> <<"alert">> ]
AlertWithoutMessage == [ shouldWake |-> TRUE, urgent |-> FALSE, message |-> NoMessage ]

Outcomes(task) ==
    IF task.run = "probe" THEN { NoResult, Throws }
    ELSE { NoResult, Alert(FALSE), Alert(TRUE), AlertWithoutMessage }

\* ------------------------------------------------------------------------
\* DecisionLogger
\* ------------------------------------------------------------------------
LogCallers == 1..MaxLogs

NoDecision == [ id |-> 0, day |-> 0 ]

IdleLog == [ pc |-> "idle", decision |-> NoDecision, result |-> 0 ]

\* A line of a day file: the JSON of a decision.
lineOf(decision) == [ parses |-> TRUE, decision |-> decision ]

\* What a failed append can leave: the beginning of the line, which is no
\* JSON and has no newline yet.
tornLineOf(decision) == [ parses |-> FALSE, decision |-> decision ]

\* A torn line closed by the line appended after it: no JSON either.
GluedLine == [ parses |-> FALSE, decision |-> NoDecision ]

isOpen(line) == ~line.parses /\ line.decision # NoDecision

\* writeFile(..., { flag: "a" }): the text goes to the end of the file, so
\* onto the last line when that one has no newline.
appendLine(lines, line) ==
    IF lines # << >> /\ isOpen(lines[Len(lines)])
    THEN [ lines EXCEPT ![Len(lines)] = IF isOpen(line) THEN @ ELSE GluedLine ]
    ELSE Append(lines, line)

NoReply == [ command |-> "none", arg |-> << >>, count |-> 0, rejected |-> FALSE,
             entries |-> << >> ]

InitDecisions ==
    /\ decisionDir = [ exists |-> FALSE, files |-> [ d \in Days |-> << >> ] ]
    /\ logCalls = [ c \in LogCallers |-> IdleLog ]
    /\ stamps = 0
    /\ logged = << >>
    /\ reply = NoReply

Reverse(seq) == [ k \in 1..Len(seq) |-> seq[Len(seq) - k + 1] ]

\* files.filter(f => f.endsWith(".jsonl")).sort().reverse(): the days that
\* have a file, latest first.
RECURSIVE jsonlFiles(_, _)
jsonlFiles(dir, day) ==
    IF day \notin Days THEN << >>
    ELSE (IF dir.files[day] # << >> THEN << day >> ELSE << >>)
           \o jsonlFiles(dir, day - 1)

\* The loop over the lines of a file, last line first.
\* A variant of the scan of a file's lines that gives up the file at the
\* first line that does not parse.
scanLines_StopsAtMalformed(lines, decisions, count) ==
    LET firstBad == IF \E k \in 1..Len(lines) : ~lines[k].parses
                    THEN CHOOSE k \in 1..Len(lines) :
                            /\ ~lines[k].parses
                            /\ \A j \in 1..(k - 1) : lines[j].parses
                    ELSE Len(lines) + 1
        room == IF count > Len(decisions) THEN count - Len(decisions) ELSE 0
        take == IF firstBad - 1 < room THEN firstBad - 1 ELSE room
    IN  decisions \o [ k \in 1..take |-> lines[k].decision ]

RECURSIVE scanLines(_, _, _)
scanLines(lines, decisions, count) ==
    IF lines = << >> \/ Len(decisions) >= count THEN decisions
    ELSE scanLines(Tail(lines),
                   IF Head(lines).parses THEN Append(decisions, Head(lines).decision)
                   ELSE decisions,
                   count)

\* The loop over the day files, latest first.
RECURSIVE scanFiles(_, _, _, _)
scanFiles(dir, names, decisions, count) ==
    IF names = << >> \/ Len(decisions) >= count THEN decisions
    ELSE scanFiles(dir, Tail(names),
                   scanLines(Reverse(dir.files[Head(names)]), decisions, count),
                   count)

\* getRecent(count): an empty list when the directory cannot be read.
getRecent(dir, count) ==
    IF ~dir.exists THEN << >>
    ELSE scanFiles(dir, jsonlFiles(dir, CHOOSE d \in Days : \A e \in Days : e <= d),
                   << >>, count)

\* log(decision) is called: "await mkdir(this.dataDir, { recursive: true })".
LogCall(c) ==
    /\ cur = 0
    /\ logCalls[c].pc = "idle"
    /\ logCalls' = [ logCalls EXCEPT ![c].pc = "mkdir" ]
    /\ UNCHANGED <<decisionDir, stamps, logged>>
    /\ UNCHANGED <<running, timer, timers, tickCount, tasks, recentEvents, ticks, cur,
                   runtime, inbox, commands, notifications, wakes, service,
                   pendingTasks, tickets, lastRegistered, reply, pluginConfig>>
    /\ UNCHANGED ledgerVars

\* mkdir returned: take the time, make the id and call writeFile with the
\* line; mkdir is awaited outside the try block, so its failure rejects the
\* promise of log().
LogMkdirDone(c) ==
    /\ cur = 0
    /\ logCalls[c].pc = "mkdir"
    /\ \E ok \in BOOLEAN :
          IF ok
          THEN /\ decisionDir' = [ decisionDir EXCEPT !.exists = TRUE ]
               /\ stamps' = stamps + 1
               /\ logCalls' = [ logCalls EXCEPT ![c] =
                                 [ pc |-> "write",
                                   decision |-> [ id |-> stamps + 1, day |-> clock ],
                                   result |-> 0 ] ]
          ELSE /\ logCalls' = [ logCalls EXCEPT ![c].pc = "raised" ]
               /\ UNCHANGED <<decisionDir, stamps>>
    /\ UNCHANGED logged
    /\ UNCHANGED <<running, timer, timers, tickCount, tasks, recentEvents, ticks, cur,
                   runtime, inbox, commands, notifications, wakes, service,
                   pendingTasks, tickets, lastRegistered, reply, pluginConfig>>
    /\ UNCHANGED ledgerVars

\* writeFile with flag "a" returned: the line is at the end of the file of
\* the decision's day, or the failure is logged; log() returns the id.
LogWriteDone(c) ==
    /\ cur = 0
    /\ logCalls[c].pc = "write"
    /\ \E ok \in BOOLEAN :
          IF ok
          THEN /\ decisionDir' =
                    [ decisionDir EXCEPT !.files[logCalls[c].decision.day] =
                                            appendLine(@, lineOf(logCalls[c].decision)) ]
               /\ logged' = Append(logged, logCalls[c].decision)
          ELSE UNCHANGED <<decisionDir, logged>>
    /\ logCalls' = [ logCalls EXCEPT ![c].pc = "returned",
                                     ![c].result = logCalls[c].decision.id ]
    /\ UNCHANGED stamps
    /\ UNCHANGED <<running, timer, timers, tickCount, tasks, recentEvents, ticks, cur,
                   runtime, inbox, commands, notifications, wakes, service,
                   pendingTasks, tickets, lastRegistered, reply, pluginConfig>>
    /\ UNCHANGED ledgerVars

\* ------------------------------------------------------------------------
\* HeartbeatDaemon: registry
\* ------------------------------------------------------------------------
findIndex(ts, name) ==
    IF \E k \in 1..Len(ts) : ts[k].name = name
    THEN CHOOSE k \in 1..Len(ts) :
            /\ ts[k].name = name
            /\ \A j \in 1..(k - 1) : ts[j].name # name
    ELSE 0

\* A variant of registerTask that always appends.
registerTask_Appends(ts, task) == Append(ts, task)

registerTask(ts, task) ==
    LET existing == findIndex(ts, task.name)
    IN  IF existing > 0 THEN [ ts EXCEPT ![existing] = task ]
        ELSE Append(ts, task)

\* Array.prototype.splice(idx, 1).
splice(seq, idx) ==
    [ k \in 1..(Len(seq) - 1) |-> IF k < idx THEN seq[k] ELSE seq[k + 1] ]

unregisterTask(ts, name) ==
    LET idx == findIndex(ts, name)
    IN  IF idx > 0 THEN splice(ts, idx) ELSE ts

\* constructor: the built-in tasks.
Constructor(opts) ==
    LET base == registerTask(<< >>, createEconomyCheckTask)
    IN  IF opts.thinkIntervalMs > 0
        THEN registerTask(base, createThinkingTask(opts))
        ELSE base

\* ------------------------------------------------------------------------
\* HeartbeatDaemon: start, stop and the timer
\* ------------------------------------------------------------------------
TickIds == 1..MostTicks
TimerIds == 1..(MostTicks + 1)

NoTask == [ name |-> "", intervalTicks |-> 1, run |-> "none" ]

IdleTick == [ pc |-> "none", idx |-> 1, task |-> NoTask, result |-> NoResult,
              viaTimer |-> FALSE, ran |-> << >>, errors |-> << >>,
              touched |-> FALSE, changed |-> {} ]

InitDaemonWith(cfg, registered) ==
    /\ pluginConfig = cfg
    /\ running = FALSE
    /\ timer = 0
    /\ timers = {}
    /\ tickCount = 0
    /\ tasks = registered
    /\ recentEvents = << >>
    /\ ticks = [ i \in TickIds |-> IdleTick ]
    /\ cur = 0
    /\ inbox = << >>
    /\ commands = << >>
    /\ notifications = << >>
    /\ wakes = << >>
    /\ service = "idle"
    /\ pendingTasks = << >>
    /\ tickets = << >>
    /\ lastRegistered = [ n \in Names |-> NoTask ]
    /\ InitDecisions

\* The daemon of the service: its configuration is DEFAULT_CONFIG.
InitDaemon(registered) == InitDaemonWith(config, registered)

\* The host offers every capability (ledger runs do not use them).
FullRuntime == [ enqueue |-> TRUE, runCommand |-> TRUE, telegram |-> TRUE ]

InitLedger ==
    /\ InitEconomy({ NoFile(1), CorruptFile(1) })
    /\ InitDaemon(Constructor(config))
    /\ runtime = FullRuntime

\* A handle no armed timer and not this.timer uses.
FreshTimer == CHOOSE t \in TimerIds : t \notin timers /\ t # timer

scheduleTick(isRunning) ==
    IF ~isRunning
    THEN UNCHANGED <<timer, timers>>
    ELSE /\ timer' = FreshTimer
         /\ timers' = timers \cup { FreshTimer }

\* tick() is called: "this.tickCount++", and the loop over the tasks begins.
beginTick(viaTimer) ==
    /\ tickCount' = tickCount + 1
    /\ ticks' = [ ticks EXCEPT ![tickCount + 1] =
                    [ IdleTick EXCEPT !.pc = "loop", !.viaTimer = viaTimer ] ]
    /\ cur' = tickCount + 1

StartOf(limit) ==
    /\ cur = 0
    /\ IF running
       THEN UNCHANGED <<running, timer, timers, tickCount, ticks, cur>>
       ELSE /\ tickCount < limit
            /\ running' = TRUE
            /\ beginTick(FALSE)
            /\ scheduleTick(TRUE)
    /\ UNCHANGED <<tasks, recentEvents, runtime, pluginVars, inbox, commands, notifications, wakes>>
    /\ UNCHANGED ledgerVars

Stop ==
    /\ cur = 0
    /\ running' = FALSE
    /\ timers' = timers \ { timer }
    /\ timer' = 0
    /\ UNCHANGED <<tickCount, tasks, recentEvents, ticks, cur, runtime, pluginVars, inbox,
                   commands, notifications, wakes>>
    /\ UNCHANGED ledgerVars

\* The timer's callback: "await this.tick()", then scheduleTick().
TimerFireOf(t, limit) ==
    /\ cur = 0
    /\ t \in timers
    /\ tickCount < limit
    /\ timers' = timers \ { t }
    /\ beginTick(TRUE)
    /\ UNCHANGED <<running, timer, tasks, recentEvents, runtime, pluginVars, inbox, commands,
                   notifications, wakes>>
    /\ UNCHANGED ledgerVars

\* ------------------------------------------------------------------------
\* HeartbeatDaemon: the tick
\* ------------------------------------------------------------------------
InProgress(i) == ticks[i].pc \notin { "none", "done" }

\* "for (const task of this.tasks)": the next task, skipped when not due,
\* else its run() is called.  A built-in task's run() has no I/O to wait for.
LoopNext(i) ==
    /\ cur = i
    /\ ticks[i].pc = "loop"
    /\ IF ticks[i].idx > Len(tasks)
       THEN /\ ticks' = [ ticks EXCEPT ![i].pc = "save" ]
            /\ UNCHANGED <<cur, economy, undetected, lastMutation>>
       ELSE LET task == tasks[ticks[i].idx]
                next == [ ticks[i] EXCEPT !.idx = @ + 1, !.task = task ]
                called == [ next EXCEPT !.ran = Append(@, task.name) ]
            IN  IF tickCount % task.intervalTicks # 0
                THEN /\ ticks' = [ ticks EXCEPT ![i] = next ]
                     /\ UNCHANGED <<cur, economy, undetected, lastMutation>>
                ELSE IF task.run = "economyCheck"
                THEN /\ economy' = refresh(economy, clock)
                     /\ ticks' = [ ticks EXCEPT ![i] =
                            [ called EXCEPT !.pc = "result",
                                            !.result = economyCheckRun(economy') ] ]
                     /\ undetected' = "none"
                     /\ lastMutation' = NoMutation
                     /\ UNCHANGED cur
                ELSE IF task.run = "thinking"
                THEN /\ ticks' = [ ticks EXCEPT ![i] =
                            [ called EXCEPT !.pc = "result",
                                            !.result = thinkingRun(economy) ] ]
                     /\ UNCHANGED <<cur, economy, undetected, lastMutation>>
                ELSE /\ ticks' = [ ticks EXCEPT ![i] = [ called EXCEPT !.pc = "run" ] ]
                     /\ cur' = 0
                     /\ UNCHANGED <<economy, undetected, lastMutation>>
    /\ UNCHANGED <<running, timer, timers, tickCount, tasks, recentEvents, runtime, pluginVars,
                   inbox, commands, notifications, wakes>>
    /\ UNCHANGED <<disk, clock, saves, nOps, appended>>

\* A variant of the return of a task's run() in which a throw ends the tick.
TaskReturns_Aborts(i) ==
    /\ cur = 0
    /\ ticks[i].pc = "run"
    /\ \E r \in Outcomes(ticks[i].task) :
          ticks' = [ ticks EXCEPT ![i] =
                      IF r = Throws
                      THEN [ @ EXCEPT !.pc = "end", !.errors = Append(@, "task") ]
                      ELSE [ @ EXCEPT !.pc = "result", !.result = r ] ]
    /\ cur' = i
    /\ UNCHANGED <<running, timer, timers, tickCount, tasks, recentEvents, runtime, pluginVars,
                   inbox, commands, notifications, wakes>>
    /\ UNCHANGED ledgerVars

\* "await task.run()" of a registered task returns or throws; a throw goes
\* to the catch block of the loop body.
TaskReturns(i) ==
    /\ cur = 0
    /\ ticks[i].pc = "run"
    /\ \E r \in Outcomes(ticks[i].task) :
          ticks' = [ ticks EXCEPT ![i] =
                      IF r = Throws
                      THEN [ @ EXCEPT !.pc = "loop", !.errors = Append(@, "task") ]
                      ELSE [ @ EXCEPT !.pc = "result", !.result = r ] ]
    /\ cur' = i
    /\ UNCHANGED <<running, timer, timers, tickCount, tasks, recentEvents, runtime, pluginVars,
                   inbox, commands, notifications, wakes>>
    /\ UNCHANGED ledgerVars

\* packContext: the trigger reason, the economy snapshot and the last five
\* recent events.
RecentShown == 5

slice(evs, n) ==
    IF Len(evs) <= n THEN evs ELSE SubSeq(evs, Len(evs) - n + 1, Len(evs))

packContext(taskName, result) ==
    [ reason |-> <<taskName, result.message>>,
      tier   |-> getSurvivalTier(economy),
      tokenCredits |-> economy.state.balance.tokenCredits,
      events |-> slice(recentEvents, RecentShown) ]

\* trackEvent: push, and keep the newest MAX_RECENT_EVENTS.
MAX_RECENT_EVENTS == 20

\* A variant of trackEvent that pushes and never drops.
trackEvent_Unbounded(evs, taskName, message, urgent) ==
    Append(evs, [ taskName |-> taskName, message |-> message, urgent |-> urgent ])

trackEvent(evs, taskName, message, urgent) ==
    slice(Append(evs, [ taskName |-> taskName, message |-> message,
                        urgent |-> urgent ]),
          MAX_RECENT_EVENTS)

\* A variant of wakeAgent without its catch block: a throw of the enqueue
\* reaches the catch block of the tick, which goes on with the next task.
wakeAgent_Throws(i, taskName, text, urgent, enqueueOk) ==
    LET enqueued == runtime.enqueue /\ enqueueOk
        thrown == runtime.enqueue /\ ~enqueueOk
        trigger == ~thrown /\ urgent /\ runtime.runCommand
    IN  /\ wakes' = Append(wakes, [ task |-> taskName, urgent |-> urgent,
                                    text |-> text ])
        /\ inbox' = IF enqueued THEN Append(inbox, text) ELSE inbox
        /\ commands' = IF trigger THEN Append(commands, text) ELSE commands
        /\ ticks' = [ ticks EXCEPT ![i] =
                        [ @ EXCEPT !.pc = IF thrown THEN "loop"
                                          ELSE IF trigger THEN "trigger" ELSE "track",
                                   !.errors = IF thrown THEN Append(@, "task") ELSE @ ] ]
        /\ cur' = IF trigger THEN 0 ELSE i

\* wakeAgent: enqueue the text when the host can, then, for an urgent wake
\* and a host that can run commands, run the trigger command and wait for
\* it.  A throw of the enqueue goes to the catch block, which skips the
\* trigger and logs.
wakeAgent(i, taskName, text, urgent, enqueueOk) ==
    LET enqueued == runtime.enqueue /\ enqueueOk
        thrown == runtime.enqueue /\ ~enqueueOk
        trigger == ~thrown /\ urgent /\ runtime.runCommand
    IN  /\ wakes' = Append(wakes, [ task |-> taskName, urgent |-> urgent,
                                    text |-> text ])
        /\ inbox' = IF enqueued THEN Append(inbox, text) ELSE inbox
        /\ commands' = IF trigger THEN Append(commands, text) ELSE commands
        /\ ticks' = [ ticks EXCEPT ![i] =
                        [ @ EXCEPT !.pc = IF trigger THEN "trigger" ELSE "track",
                                   !.errors = IF thrown THEN Append(@, "wake") ELSE @ ] ]
        /\ cur' = IF trigger THEN 0 ELSE i

\* "if (result.shouldWake && result.message)": pack the context and wake.
HandleResult(i) ==
    /\ cur = i
    /\ ticks[i].pc = "result"
    /\ LET result == ticks[i].result
       IN  IF result.shouldWake /\ result.message # NoMessage
           THEN \E enqueueOk \in BOOLEAN :
                   wakeAgent(i, ticks[i].task.name,
                             packContext(ticks[i].task.name, result),
                             result.urgent, enqueueOk)
           ELSE /\ ticks' = [ ticks EXCEPT ![i].pc = "loop" ]
                /\ UNCHANGED <<cur, inbox, commands, wakes>>
    /\ UNCHANGED <<running, timer, timers, tickCount, tasks, recentEvents, runtime, pluginVars,
                   notifications>>
    /\ UNCHANGED ledgerVars

\* A variant of the return of the trigger command that takes the message
\* back from the inbox when the command failed.
TriggerReturns_Retracts(i) ==
    /\ cur = 0
    /\ ticks[i].pc = "trigger"
    /\ \E ok \in BOOLEAN :
          /\ ticks' = [ ticks EXCEPT ![i] =
                        [ @ EXCEPT !.pc = "track",
                                   !.errors = IF ok THEN @ ELSE Append(@, "wake") ] ]
          /\ inbox' = IF ok \/ inbox = << >> THEN inbox
                      ELSE SubSeq(inbox, 1, Len(inbox) - 1)
    /\ cur' = i
    /\ UNCHANGED <<running, timer, timers, tickCount, tasks, recentEvents, runtime, pluginVars,
                   commands, notifications, wakes>>
    /\ UNCHANGED ledgerVars

\* The trigger command returns, fails or times out; a failure goes to the
\* catch block of wakeAgent, which logs.
TriggerReturns(i) ==
    /\ cur = 0
    /\ ticks[i].pc = "trigger"
    /\ \E ok \in BOOLEAN :
          ticks' = [ ticks EXCEPT ![i] =
                      [ @ EXCEPT !.pc = "track",
                                 !.errors = IF ok THEN @ ELSE Append(@, "wake") ] ]
    /\ cur' = i
    /\ UNCHANGED <<running, timer, timers, tickCount, tasks, recentEvents, runtime, pluginVars,
                   inbox, commands, notifications, wakes>>
    /\ UNCHANGED ledgerVars

\* A variant of the step after wakeAgent that sends the direct message for
\* the urgent wake of any task.
Track_AnyUrgent(i) ==
    /\ cur = i
    /\ ticks[i].pc = "track"
    /\ LET task == ticks[i].task
           result == ticks[i].result
           notify == result.urgent /\ runtime.telegram
       IN  /\ recentEvents' = trackEvent(recentEvents, task.name, result.message,
                                         result.urgent)
           /\ notifications' = IF notify THEN Append(notifications, result.message)
                               ELSE notifications
           /\ ticks' = [ ticks EXCEPT ![i].pc = IF notify THEN "notify" ELSE "loop" ]
           /\ cur' = IF notify THEN 0 ELSE i
    /\ UNCHANGED <<running, timer, timers, tickCount, tasks, runtime, pluginVars, inbox,
                   commands, wakes>>
    /\ UNCHANGED ledgerVars

\* After wakeAgent: trackEvent, and notifyBoss for an urgent economy-check
\* result when the host can send the direct message.
Track(i) ==
    /\ cur = i
    /\ ticks[i].pc = "track"
    /\ LET task == ticks[i].task
           result == ticks[i].result
           notify == task.name = "economy-check" /\ result.urgent /\ runtime.telegram
       IN  /\ recentEvents' = trackEvent(recentEvents, task.name, result.message,
                                         result.urgent)
           /\ notifications' = IF notify THEN Append(notifications, result.message)
                               ELSE notifications
           /\ ticks' = [ ticks EXCEPT ![i].pc = IF notify THEN "notify" ELSE "loop" ]
           /\ cur' = IF notify THEN 0 ELSE i
    /\ UNCHANGED <<running, timer, timers, tickCount, tasks, runtime, pluginVars, inbox,
                   commands, wakes>>
    /\ UNCHANGED ledgerVars

NotifyReturns(i) ==
    /\ cur = 0
    /\ ticks[i].pc = "notify"
    /\ \E ok \in BOOLEAN :
          ticks' = [ ticks EXCEPT ![i] =
                      [ @ EXCEPT !.pc = "loop",
                                 !.errors = IF ok THEN @ ELSE Append(@, "notify") ] ]
    /\ cur' = i
    /\ UNCHANGED <<running, timer, timers, tickCount, tasks, recentEvents, runtime, pluginVars,
                   inbox, commands, notifications, wakes>>
    /\ UNCHANGED ledgerVars

\* "await economy.save()" at the end of the tick.
TickSave(i) ==
    /\ cur = i
    /\ ticks[i].pc = "save"
    /\ saveCall(i)
    /\ ticks' = [ ticks EXCEPT ![i].pc = IF economy.dirty THEN "saving" ELSE "end" ]
    /\ cur' = IF economy.dirty THEN 0 ELSE i
    /\ UNCHANGED <<running, timer, timers, tickCount, tasks, recentEvents, runtime, pluginVars,
                   inbox, commands, notifications, wakes>>
    /\ UNCHANGED <<economy, disk, clock, nOps, appended, undetected, lastMutation>>

TickMkdirDone(i) ==
    /\ cur = 0
    /\ ticks[i].pc = "saving"
    /\ saves[i].pc = "mkdir"
    /\ \E ok \in BOOLEAN :
          /\ saveMkdirDone(i, ok)
          /\ ticks' = IF ok THEN ticks
                      ELSE [ ticks EXCEPT ![i] =
                              [ @ EXCEPT !.pc = "end", !.errors = Append(@, "save") ] ]
          /\ cur' = IF ok THEN 0 ELSE i
    /\ UNCHANGED <<running, timer, timers, tickCount, tasks, recentEvents, runtime, pluginVars,
                   inbox, commands, notifications, wakes>>
    /\ UNCHANGED <<economy, disk, clock, nOps, appended, undetected, lastMutation>>

TickWriteDone(i) ==
    /\ cur = 0
    /\ ticks[i].pc = "saving"
    /\ saves[i].pc = "write"
    /\ \E ok \in BOOLEAN, partial \in BOOLEAN :
          /\ saveWriteDone(i, ok, partial)
          /\ ticks' = [ ticks EXCEPT ![i] =
                          [ @ EXCEPT !.pc = "end",
                                     !.errors = IF ok THEN @ ELSE Append(@, "save") ] ]
    /\ cur' = i
    /\ UNCHANGED <<running, timer, timers, tickCount, tasks, recentEvents, runtime, pluginVars,
                   inbox, commands, notifications, wakes>>
    /\ UNCHANGED <<clock, nOps, appended, undetected, lastMutation>>

\* A variant of the end of a tick in which the timer's callback does not go
\* on to scheduleTick().
TickEnd_NoReschedule(i) ==
    /\ cur = i
    /\ ticks[i].pc = "end"
    /\ ticks' = [ ticks EXCEPT ![i] =
                    [ IdleTick EXCEPT !.pc = "done", !.ran = ticks[i].ran ] ]
    /\ cur' = 0
    /\ UNCHANGED <<timer, timers>>
    /\ UNCHANGED <<running, tickCount, tasks, recentEvents, runtime, pluginVars, inbox, commands,
                   notifications, wakes>>
    /\ UNCHANGED ledgerVars

\* tick() returns and its locals are gone; the timer's callback goes on to
\* scheduleTick().
TickEnd(i) ==
    /\ cur = i
    /\ ticks[i].pc = "end"
    /\ ticks' = [ ticks EXCEPT ![i] =
                    [ IdleTick EXCEPT !.pc = "done", !.ran = ticks[i].ran ] ]
    /\ cur' = 0
    /\ IF ticks[i].viaTimer THEN scheduleTick(running) ELSE UNCHANGED <<timer, timers>>
    /\ UNCHANGED <<running, tickCount, tasks, recentEvents, runtime, pluginVars, inbox, commands,
                   notifications, wakes>>
    /\ UNCHANGED ledgerVars

\* ------------------------------------------------------------------------
\* The service around the daemon
\* ------------------------------------------------------------------------
\* What the host may offer.
Runtimes ==
    { FullRuntime,
      [ enqueue |-> FALSE, runCommand |-> TRUE, telegram |-> FALSE ],
      [ enqueue |-> TRUE, runCommand |-> FALSE, telegram |-> TRUE ] }

Rewards == { [ tokens |-> 250000, usd |-> 0 ] }
Costs == { [ tokens |-> 500, usd |-> 0 ], [ tokens |-> 241000, usd |-> 0 ] }

\* "/moss reward": recordIncome, then "await economy.save()".
Reward ==
    /\ cur = 0
    /\ nOps < EconomyOps
    /\ saves[External].pc = "idle"
    /\ \E e \in Rewards :
          /\ economy' = recordIncome(economy, "boss_task_reward", e.tokens, e.usd,
                                     clock)
          /\ noteIncome("boss_task_reward", e)
    /\ noteDegradation(economy, economy')
    /\ noteMutation("income", economy, economy')
    /\ nOps' = nOps + 1
    /\ saves' = [ saves EXCEPT ![External].pc = "mkdir" ]
    /\ UNCHANGED <<disk, clock>>
    /\ UNCHANGED schedVars

\* The llm_output hook: recordExpense of the tokens used.
TokenTracker == RecordExpenseOf(Costs, EconomyOps)

Start == StartOf(MaxTicks)

TimerFire(t) == TimerFireOf(t, MaxTicks)

\* The daemon with the tasks of other plugins registered; nothing is earned
\* or spent.
Init ==
    /\ InitEconomy({ NoFile(1) })
    /\ InitDaemon(registerTask(registerTask(Constructor(config), probeTask),
                                reportTask))
    /\ runtime \in Runtimes

Next ==
    \/ Start
    \/ Stop
    \/ \E t \in TimerIds : TimerFire(t)
    \/ \E i \in TickIds : LoopNext(i)
    \/ \E i \in TickIds : TaskReturns(i)
    \/ \E i \in TickIds : HandleResult(i)
    \/ \E i \in TickIds : TriggerReturns(i)
    \/ \E i \in TickIds : Track(i)
    \/ \E i \in TickIds : TickSave(i)
    \/ \E i \in TickIds : TickEnd(i)

Spec == Init /\ [][Next]_vars

\* The daemon where everything that can fail does: a task that throws, a
\* ledger in a degraded tier (so economy-check wakes urgently and notifies)
\* loaded on a new day (so the tick has something to save).
FaultStart == StartOf(FaultTicks)

FaultTimerFire(t) == TimerFireOf(t, FaultTicks)

InitFaults ==
    /\ InitEconomy({ StaleFile(1) })
    /\ InitDaemon(registerTask(registerTask(Constructor(config), probeTask),
                                auditTask))
    /\ runtime = FullRuntime

NextFaults ==
    \/ FaultStart
    \/ Stop
    \/ \E t \in TimerIds : FaultTimerFire(t)
    \/ \E i \in TickIds : LoopNext(i)
    \/ \E i \in TickIds : TaskReturns(i)
    \/ \E i \in TickIds : HandleResult(i)
    \/ \E i \in TickIds : TriggerReturns(i)
    \/ \E i \in TickIds : Track(i)
    \/ \E i \in TickIds : NotifyReturns(i)
    \/ \E i \in TickIds : TickSave(i)
    \/ \E i \in TickIds : TickMkdirDone(i)
    \/ \E i \in TickIds : TickWriteDone(i)
    \/ \E i \in TickIds : TickEnd(i)

SpecFaults == InitFaults /\ [][NextFaults]_vars

\* The daemon stopped and started again while ticks are in flight: one
\* registered task that only takes its time, and no wake.
RestartStart == StartOf(RestartTicks)

RestartTimerFire(t) == TimerFireOf(t, RestartTicks)

InitRestart ==
    /\ InitEconomy({ NoFile(1) })
    /\ InitDaemon(registerTask(Constructor(config), probeTask))
    /\ runtime = FullRuntime

NextRestart ==
    \/ RestartStart
    \/ Stop
    \/ \E t \in TimerIds : RestartTimerFire(t)
    \/ \E i \in TickIds : LoopNext(i)
    \/ \E i \in TickIds : TaskReturns(i)
    \/ \E i \in TickIds : HandleResult(i)
    \/ \E i \in TickIds : TickSave(i)
    \/ \E i \in TickIds : TickEnd(i)

SpecRestart == InitRestart /\ [][NextRestart]_vars

\* The daemon with its built-in tasks, and the ledger earning and spending
\* between and during the ticks.
EconomyStart == StartOf(EconomyTicks)

EconomyTimerFire(t) == TimerFireOf(t, EconomyTicks)

InitEconomyLoop ==
    /\ InitEconomy({ FundedFile(1) })
    /\ InitDaemon(Constructor(config))
    /\ runtime = FullRuntime

NextEconomyLoop ==
    \/ EconomyStart
    \/ Stop
    \/ \E t \in TimerIds : EconomyTimerFire(t)
    \/ \E i \in TickIds : LoopNext(i)
    \/ \E i \in TickIds : HandleResult(i)
    \/ \E i \in TickIds : TriggerReturns(i)
    \/ \E i \in TickIds : Track(i)
    \/ \E i \in TickIds : NotifyReturns(i)
    \/ \E i \in TickIds : TickSave(i)
    \/ \E i \in TickIds : TickMkdirDone(i)
    \/ \E i \in TickIds : TickWriteDone(i)
    \/ \E i \in TickIds : TickEnd(i)
    \/ Reward
    \/ SaveMkdirDone
    \/ SaveWriteDone
    \/ TokenTracker

SpecEconomyLoop == InitEconomyLoop /\ [][NextEconomyLoop]_vars

\* ------------------------------------------------------------------------
\* The plugin: the registration API and the service
\* ------------------------------------------------------------------------
\* getHeartbeatDaemon(): the daemon of the started service, or null.
daemonUp == service = "started"

\* What other plugins submit.
Submissions == { probeTask, probeLater, auditTask }

\* History: a change of the registry is noted in the ticks in progress,
\* with the names of the tasks registered or unregistered.
touch(ts, names) ==
    [ i \in TickIds |-> IF ts[i].pc \notin { "none", "done" }
                        THEN [ ts[i] EXCEPT !.touched = TRUE,
                                            !.changed = @ \cup names ]
                        ELSE ts[i] ]

ticket(op, name, task, value) ==
    [ op |-> op, name |-> name, task |-> task, direct |-> daemonUp,
      value |-> value ]

\* registerTaskProxy: to the daemon when there is one, else to the queue.
RegisterTaskProxy(task) ==
    /\ cur = 0
    /\ Len(tickets) < MaxCalls
    /\ tickets' = Append(tickets, ticket("register", task.name, task, TRUE))
    /\ IF daemonUp
       THEN /\ tasks' = registerTask(tasks, task)
            /\ lastRegistered' = [ lastRegistered EXCEPT ![task.name] = task ]
            /\ ticks' = touch(ticks, { task.name })
            /\ UNCHANGED pendingTasks
       ELSE /\ pendingTasks' = Append(pendingTasks, task)
            /\ UNCHANGED <<tasks, lastRegistered, ticks>>
    /\ UNCHANGED <<running, timer, timers, tickCount, recentEvents, cur, runtime,
                   inbox, commands, notifications, wakes, service,
                   otherVars>>
    /\ UNCHANGED ledgerVars

\* unregisterTaskProxy: from the daemon when there is one, else from the
\* queue; the result tells whether something was removed.
UnregisterTaskProxy(name) ==
    /\ cur = 0
    /\ Len(tickets) < MaxCalls
    /\ IF daemonUp
       THEN /\ tasks' = unregisterTask(tasks, name)
            /\ lastRegistered' = [ lastRegistered EXCEPT ![name] = NoTask ]
            /\ ticks' = touch(ticks, { name })
            /\ tickets' = Append(tickets, ticket("unregister", name, NoTask,
                                                 findIndex(tasks, name) > 0))
            /\ UNCHANGED pendingTasks
       ELSE /\ pendingTasks' = unregisterTask(pendingTasks, name)
            /\ tickets' = Append(tickets, ticket("unregister", name, NoTask,
                                                 findIndex(pendingTasks, name) > 0))
            /\ UNCHANGED <<tasks, lastRegistered, ticks>>
    /\ UNCHANGED <<running, timer, timers, tickCount, recentEvents, cur, runtime,
                   inbox, commands, notifications, wakes, service,
                   otherVars>>
    /\ UNCHANGED ledgerVars

RECURSIVE registerAll(_, _)
registerAll(ts, pending) ==
    IF pending = << >> THEN ts
    ELSE registerAll(registerTask(ts, Head(pending)), Tail(pending))

RECURSIVE noteAll(_, _)
noteAll(last, pending) ==
    IF pending = << >> THEN last
    ELSE noteAll([ last EXCEPT ![Head(pending).name] = Head(pending) ], Tail(pending))

\* The gateway_start handler: with a daemon, register the queued tasks and
\* empty the queue.
GatewayStart ==
    /\ cur = 0
    /\ IF Len(pendingTasks) > 0 /\ daemonUp
       THEN /\ tasks' = registerAll(tasks, pendingTasks)
            /\ lastRegistered' = noteAll(lastRegistered, pendingTasks)
            /\ pendingTasks' = << >>
            /\ ticks' = touch(ticks, { pendingTasks[k].name : k \in 1..Len(pendingTasks) })
       ELSE UNCHANGED <<tasks, lastRegistered, pendingTasks, ticks>>
    /\ UNCHANGED <<running, timer, timers, tickCount, recentEvents, cur, runtime,
                   inbox, commands, notifications, wakes, service, tickets,
                   otherVars>>
    /\ UNCHANGED ledgerVars

\* The service's start(): a new EconomyTracker, "await economy.load()".
ServiceStart ==
    /\ cur = 0
    /\ service = "idle"
    /\ service' = "loading"
    /\ UNCHANGED <<running, timer, timers, tickCount, tasks, recentEvents, ticks,
                   cur, runtime, inbox, commands, notifications, wakes,
                   pendingTasks, tickets, lastRegistered, otherVars>>
    /\ UNCHANGED ledgerVars

\* load() returned: a new HeartbeatDaemon, heartbeat.start(), and the
\* daemon is exposed.
ServiceLoaded ==
    /\ cur = 0
    /\ service = "loading"
    /\ tickCount < PluginTicks
    /\ economy' = load(disk, clock)
    /\ tasks' = Constructor(config)
    /\ lastRegistered' =
          [ n \in Names |->
              IF n = "economy-check" THEN createEconomyCheckTask
              ELSE IF n = "periodic-thinking" THEN createThinkingTask(config)
              ELSE NoTask ]
    /\ running' = TRUE
    /\ beginTick(FALSE)
    /\ scheduleTick(TRUE)
    /\ service' = "started"
    /\ UNCHANGED <<recentEvents, runtime, inbox, commands, notifications, wakes,
                   pendingTasks, tickets, otherVars>>
    /\ appended' = economy'.state.ledger
    /\ UNCHANGED <<disk, clock, saves, nOps, undetected, lastMutation>>

\* The service's stop(): heartbeat.stop(), the daemon is no longer exposed,
\* "await economy.save()".
ServiceStop ==
    /\ cur = 0
    /\ service = "started"
    /\ saves[External].pc = "idle"
    /\ running' = FALSE
    /\ timers' = timers \ { timer }
    /\ timer' = 0
    /\ service' = "stopped"
    /\ saveCall(External)
    /\ UNCHANGED <<tickCount, tasks, recentEvents, ticks, cur, runtime, inbox,
                   commands, notifications, wakes, pendingTasks, tickets,
                   lastRegistered, otherVars>>
    /\ UNCHANGED <<economy, disk, clock, nOps, appended, undetected, lastMutation>>

PluginTimerFire(t) == TimerFireOf(t, PluginTicks)

InitPlugin ==
    /\ InitEconomy({ NoFile(1) })
    /\ InitDaemon(<< >>)
    /\ runtime = FullRuntime

NextPlugin ==
    \/ ServiceStart
    \/ ServiceLoaded
    \/ ServiceStop
    \/ GatewayStart
    \/ \E task \in Submissions : RegisterTaskProxy(task)
    \/ \E name \in { "probe", "audit" } : UnregisterTaskProxy(name)
    \/ \E t \in TimerIds : PluginTimerFire(t)
    \/ \E i \in TickIds : LoopNext(i)
    \/ \E i \in TickIds : TaskReturns(i)
    \/ \E i \in TickIds : HandleResult(i)
    \/ \E i \in TickIds : TickSave(i)
    \/ \E i \in TickIds : TickEnd(i)

SpecPlugin == InitPlugin /\ [][NextPlugin]_vars

\* The service's start() called again after its stop(), once the ticks of
\* the stopped daemon and the save of stop() are over: a new EconomyTracker,
\* "await economy.load()".
ServiceRestart ==
    /\ cur = 0
    /\ service = "stopped"
    /\ saves[External].pc = "idle"
    /\ \A i \in TickIds : ~InProgress(i)
    /\ service' = "reloading"
    /\ UNCHANGED <<running, timer, timers, tickCount, tasks, recentEvents, ticks,
                   cur, runtime, inbox, commands, notifications, wakes,
                   pendingTasks, tickets, lastRegistered, otherVars>>
    /\ UNCHANGED ledgerVars

\* load() returned in the second start(): "heartbeat = new HeartbeatDaemon",
\* whose registry holds the built-in tasks and whose counter starts again,
\* heartbeat.start(), and the new daemon is exposed.
ServiceReloaded ==
    /\ cur = 0
    /\ service = "reloading"
    /\ economy' = load(disk, clock)
    /\ tasks' = Constructor(config)
    /\ lastRegistered' =
          [ n \in Names |->
              IF n = "economy-check" THEN createEconomyCheckTask
              ELSE IF n = "periodic-thinking" THEN createThinkingTask(config)
              ELSE NoTask ]
    /\ recentEvents' = << >>
    /\ running' = TRUE
    /\ tickCount' = 1
    /\ ticks' = [ i \in TickIds |->
                    IF i = 1 THEN [ IdleTick EXCEPT !.pc = "loop" ] ELSE IdleTick ]
    /\ cur' = 1
    /\ scheduleTick(TRUE)
    /\ service' = "started"
    /\ UNCHANGED <<runtime, inbox, commands, notifications, wakes,
                   pendingTasks, tickets, otherVars>>
    /\ appended' = economy'.state.ledger
    /\ UNCHANGED <<disk, clock, saves, nOps, undetected, lastMutation>>

\* The plugin whose service is stopped and started again.
NextReboot ==
    \/ ServiceStart
    \/ ServiceLoaded
    \/ ServiceStop
    \/ ServiceRestart
    \/ ServiceReloaded
    \/ GatewayStart
    \/ \E task \in Submissions : RegisterTaskProxy(task)
    \/ \E name \in { "probe", "audit" } : UnregisterTaskProxy(name)
    \/ \E t \in TimerIds : PluginTimerFire(t)
    \/ \E i \in TickIds : LoopNext(i)
    \/ \E i \in TickIds : TaskReturns(i)
    \/ \E i \in TickIds : HandleResult(i)
    \/ \E i \in TickIds : TickSave(i)
    \/ \E i \in TickIds : TickEnd(i)

SpecReboot == InitPlugin /\ [][NextReboot]_vars

\* ------------------------------------------------------------------------
\* The daemon late in its life: some wakes were dispatched and recorded.
\* The host cannot run commands, so a wake is recorded in the step after
\* its dispatch and the order of the dispatches is the order of the records.
\* ------------------------------------------------------------------------
reportEach == [ name |-> "report", intervalTicks |-> 1, run |-> "report" ]

\* The k-th wake of the past: its task, message and urgency.
pastEvent(k) ==
    [ taskName |-> IF k % 5 = 0 THEN "economy-check"
                   ELSE IF k % 5 = 1 THEN "periodic-thinking"
                   ELSE IF k % 5 = 2 THEN "probe"
                   ELSE IF k % 5 = 3 THEN "report" ELSE "audit",
      message |-> IF k % 3 = 0 THEN << "alert" >>
                  ELSE IF k % 3 = 1 THEN << "low" >> ELSE << "think" >>,
      urgent |-> k % 2 = 0 ]

pastEvents(n) == [ k \in 1..n |-> pastEvent(k) ]

pastWake(k, t) ==
    [ task |-> pastEvent(k).taskName,
      urgent |-> pastEvent(k).urgent,
      text |-> [ reason |-> << pastEvent(k).taskName, pastEvent(k).message >>,
                 tier |-> getSurvivalTier(t),
                 tokenCredits |-> t.state.balance.tokenCredits,
                 events |-> slice(slice(pastEvents(k - 1), MAX_RECENT_EVENTS),
                                  RecentShown) ] ]

EventStart == StartOf(EventTicks)

EventTimerFire(t) == TimerFireOf(t, EventTicks)

InitEvents ==
    /\ InitEconomy({ NoFile(1) })
    /\ pluginConfig = config
    /\ running = FALSE
    /\ timer = 0
    /\ timers = {}
    /\ tickCount = 0
    /\ tasks = registerTask(Constructor(config), reportEach)
    /\ \E n \in 0..MaxPast :
          /\ recentEvents = slice(pastEvents(n), MAX_RECENT_EVENTS)
          /\ wakes = [ k \in 1..n |-> pastWake(k, economy) ]
    /\ ticks = [ i \in TickIds |-> IdleTick ]
    /\ cur = 0
    /\ inbox = << >>
    /\ commands = << >>
    /\ notifications = << >>
    /\ service = "idle"
    /\ pendingTasks = << >>
    /\ tickets = << >>
    /\ lastRegistered = [ n \in Names |-> NoTask ]
    /\ InitDecisions
    /\ runtime = [ enqueue |-> TRUE, runCommand |-> FALSE, telegram |-> TRUE ]

NextEvents ==
    \/ EventStart
    \/ \E t \in TimerIds : EventTimerFire(t)
    \/ \E i \in TickIds : LoopNext(i)
    \/ \E i \in TickIds : TaskReturns(i)
    \/ \E i \in TickIds : HandleResult(i)
    \/ \E i \in TickIds : Track(i)
    \/ \E i \in TickIds : TickSave(i)
    \/ \E i \in TickIds : TickEnd(i)

SpecEvents == InitEvents /\ [][NextEvents]_vars

\* ------------------------------------------------------------------------
\* The ledger near its cap
\* ------------------------------------------------------------------------
CapRecordIncome == RecordIncomeOf(IncomeInputs, CapOps)

CapRecordExpense == RecordExpenseOf(ExpenseInputs, CapOps)

InitCap ==
    /\ InitEconomy({ LongFile(n, 1) : n \in (MaxLedger - ShortBy)..MaxLedger })
    /\ InitDaemon(Constructor(config))
    /\ runtime = FullRuntime

NextCap ==
    \/ CapRecordIncome
    \/ CapRecordExpense

SpecCap == InitCap /\ [][NextCap]_vars

\* ------------------------------------------------------------------------
\* Expenses around the noise threshold, from the default state
\* ------------------------------------------------------------------------
BoundaryExpenses ==
    { [ tokens |-> 0, usd |-> 0 ], [ tokens |-> 500, usd |-> 0 ],
      [ tokens |-> 1000, usd |-> 0 ], [ tokens |-> 1001, usd |-> 0 ],
      [ tokens |-> 0, usd |-> 1 ], [ tokens |-> 500, usd |-> 2 ] }

BoundaryRecordExpense == RecordExpenseOf(BoundaryExpenses, ExpenseOps)

InitExpense ==
    /\ InitEconomy({ NoFile(1) })
    /\ InitDaemon(Constructor(config))
    /\ runtime = FullRuntime

NextExpense ==
    \/ BoundaryRecordExpense
    \/ DayPasses

SpecExpense == InitExpense /\ [][NextExpense]_vars

\* ------------------------------------------------------------------------
\* The service started on a ledger file of any kind
\* ------------------------------------------------------------------------
InitLoad ==
    /\ InitEconomy({ NoFile(1), TornFile(1), UnreadableFile(1), FundedFile(1) })
    /\ InitDaemon(<< >>)
    /\ runtime = FullRuntime

NextLoad ==
    \/ DayPasses
    \/ ServiceStart
    \/ ServiceLoaded
    \/ \E t \in TimerIds : PluginTimerFire(t)
    \/ \E i \in TickIds : LoopNext(i)
    \/ \E i \in TickIds : HandleResult(i)
    \/ \E i \in TickIds : TickSave(i)
    \/ \E i \in TickIds : TickMkdirDone(i)
    \/ \E i \in TickIds : TickWriteDone(i)
    \/ \E i \in TickIds : TickEnd(i)

SpecLoad == InitLoad /\ [][NextLoad]_vars

\* ------------------------------------------------------------------------
\* One caller of save() on a new ledger
\* ------------------------------------------------------------------------
InitSave ==
    /\ InitEconomy({ NoFile(1) })
    /\ InitDaemon(Constructor(config))
    /\ runtime = FullRuntime

NextSave ==
    \/ RecordIncome
    \/ RecordExpense
    \/ Save
    \/ SaveMkdirDone
    \/ SaveWriteDone

SpecSave == InitSave /\ [][NextSave]_vars

\* ------------------------------------------------------------------------
\* The decision log
\* ------------------------------------------------------------------------
InitDecisionLog ==
    /\ InitEconomy({ NoFile(1) })
    /\ InitDaemon(Constructor(config))
    /\ runtime = FullRuntime

NextDecisionLog ==
    \/ \E c \in LogCallers : LogCall(c)
    \/ \E c \in LogCallers : LogMkdirDone(c)
    \/ \E c \in LogCallers : LogWriteDone(c)
    \/ DayPasses

SpecDecisionLog == InitDecisionLog /\ [][NextDecisionLog]_vars

\* The append of log() fails after a part of the line was written: the
\* catch block logs, and log() returns the id.
LogWriteTorn(c) ==
    /\ cur = 0
    /\ logCalls[c].pc = "write"
    /\ decisionDir' =
          [ decisionDir EXCEPT !.files[logCalls[c].decision.day] =
                                  appendLine(@, tornLineOf(logCalls[c].decision)) ]
    /\ logCalls' = [ logCalls EXCEPT ![c].pc = "returned",
                                     ![c].result = logCalls[c].decision.id ]
    /\ UNCHANGED <<stamps, logged>>
    /\ UNCHANGED <<running, timer, timers, tickCount, tasks, recentEvents, ticks, cur,
                   runtime, inbox, commands, notifications, wakes, service,
                   pendingTasks, tickets, lastRegistered, reply, pluginConfig>>
    /\ UNCHANGED ledgerVars

\* The decision log with appends that fail halfway.
NextScan ==
    \/ \E c \in LogCallers : LogCall(c)
    \/ \E c \in LogCallers : LogMkdirDone(c)
    \/ \E c \in LogCallers : LogWriteDone(c)
    \/ \E c \in LogCallers : LogWriteTorn(c)
    \/ DayPasses

SpecScan == InitDecisionLog /\ [][NextScan]_vars

\* ------------------------------------------------------------------------
\* The /moss command and the moss_ledger tool
\* ------------------------------------------------------------------------
Digits == << "0", "1", "2", "3", "4", "5", "6", "7", "8", "9" >>

isDigit(ch) == \E d \in 1..Len(Digits) : Digits[d] = ch

digit(ch) == (CHOOSE d \in 1..Len(Digits) : Digits[d] = ch) - 1

\* The value of a sequence of decimal digits.
RECURSIVE decimal(_)
decimal(chars) ==
    IF chars = << >> THEN 0
    ELSE decimal(SubSeq(chars, 1, Len(chars) - 1)) * 10 + digit(chars[Len(chars)])

\* The longest prefix of digits.
RECURSIVE digitsPrefix(_)
digitsPrefix(chars) ==
    IF chars = << >> \/ ~isDigit(Head(chars)) THEN << >>
    ELSE << Head(chars) >> \o digitsPrefix(Tail(chars))

\* parseInt(string): an optional sign and the digits that follow it, up to
\* the first character that is not a digit; NaN when there is no digit.
parseInt(chars) ==
    LET signed == chars # << >> /\ Head(chars) \in { "-", "+" }
        body == IF signed THEN Tail(chars) ELSE chars
        prefix == digitsPrefix(body)
    IN  IF prefix = << >> THEN [ nan |-> TRUE, value |-> 0 ]
        ELSE [ nan |-> FALSE,
               value |-> IF signed /\ Head(chars) = "-" THEN 0 - decimal(prefix)
                         ELSE decimal(prefix) ]

\* Array.prototype.slice(start): from the start-th element, counted from
\* the end when start is negative.
sliceFrom(seq, start) ==
    LET k == IF start < 0 THEN Max(Len(seq) + start, 0)
             ELSE IF start > Len(seq) THEN Len(seq) ELSE start
    IN  SubSeq(seq, k + 1, Len(seq))

\* getRecentLedger(count): the entries of "this.state.ledger.slice(-count)",
\* one line each.
getRecentLedger(t, count) == sliceFrom(t.state.ledger, 0 - count)

DefaultCount == 10

\* What the boss types after "/moss reward " and after "/moss ledger ", and
\* the count parameter of the tool (given or not).
RewardArgs ==
    { << "2", "5", "0", "0", "0", "0" >>, << "0" >>, << "-", "5" >>,
      << "a", "b", "c" >>, << "5", "0", "0", "0", "0", "x" >>,
      << "1", "2", ".", "5" >> }

LedgerArgs == { << "3" >>, << "0" >>, << "2", "0" >>, << "a", "b", "c" >> }

ToolCounts ==
    { [ given |-> FALSE, value |-> 0 ] }
      \cup { [ given |-> TRUE, value |-> v ] : v \in { 0, 1, 3, 20 } }

\* "/moss reward <amount>": an invalid amount is answered with an error;
\* else recordIncome, "await economy.save()", and the confirmation.
RewardCommand(arg) ==
    /\ cur = 0
    /\ saves[External].pc = "idle"
    /\ LET amount == parseInt(arg)
       IN  IF amount.nan \/ amount.value <= 0
           THEN /\ reply' = [ command |-> "reward", arg |-> arg, count |-> 0,
                              rejected |-> TRUE,
                              entries |-> << >> ]
                /\ UNCHANGED ledgerVars
           ELSE /\ nOps < CommandOps
                /\ economy' = recordIncome(economy, "boss_task_reward",
                                           amount.value, 0, clock)
                /\ noteIncome("boss_task_reward", [ tokens |-> amount.value, usd |-> 0 ])
                /\ noteDegradation(economy, economy')
                /\ noteMutation("income", economy, economy')
                /\ nOps' = nOps + 1
                /\ saves' = [ saves EXCEPT ![External].pc = "mkdir" ]
                /\ reply' = [ command |-> "reward", arg |-> arg, count |-> 0,
                              rejected |-> FALSE,
                              entries |-> << >> ]
                /\ UNCHANGED <<disk, clock>>
    /\ UNCHANGED <<running, timer, timers, tickCount, tasks, recentEvents, ticks, cur,
                   runtime, inbox, commands, notifications, wakes, service,
                   pendingTasks, tickets, lastRegistered, decisionVars,
                   pluginConfig>>

\* "/moss ledger": getRecentLedger(10).
LedgerCommandPlain ==
    /\ cur = 0
    /\ reply' = [ command |-> "ledger", arg |-> << >>, count |-> DefaultCount,
                  rejected |-> FALSE,
                  entries |-> getRecentLedger(economy, DefaultCount) ]
    /\ UNCHANGED <<running, timer, timers, tickCount, tasks, recentEvents, ticks, cur,
                   runtime, inbox, commands, notifications, wakes, service,
                   pendingTasks, tickets, lastRegistered, decisionVars,
                   pluginConfig>>
    /\ UNCHANGED ledgerVars

\* "/moss ledger <count>": "parseInt(args.split(" ")[1]) || 10".
LedgerCommand(arg) ==
    /\ cur = 0
    /\ LET parsed == parseInt(arg)
           count == IF parsed.nan \/ parsed.value = 0 THEN DefaultCount
                    ELSE parsed.value
       IN  reply' = [ command |-> "ledger", arg |-> arg, count |-> count,
                      rejected |-> FALSE,
                      entries |-> getRecentLedger(economy, count) ]
    /\ UNCHANGED <<running, timer, timers, tickCount, tasks, recentEvents, ticks, cur,
                   runtime, inbox, commands, notifications, wakes, service,
                   pendingTasks, tickets, lastRegistered, decisionVars,
                   pluginConfig>>
    /\ UNCHANGED ledgerVars

\* moss_ledger.execute: "params.count ?? 10".
LedgerTool(param) ==
    /\ cur = 0
    /\ LET count == IF param.given THEN param.value ELSE DefaultCount
       IN  reply' = [ command |-> "moss_ledger",
                      arg |-> << >>, count |-> count,
                      rejected |-> FALSE,
                      entries |-> getRecentLedger(economy, count) ]
    /\ UNCHANGED <<running, timer, timers, tickCount, tasks, recentEvents, ticks, cur,
                   runtime, inbox, commands, notifications, wakes, service,
                   pendingTasks, tickets, lastRegistered, decisionVars,
                   pluginConfig>>
    /\ UNCHANGED ledgerVars

InitCommand ==
    /\ InitEconomy({ NoFile(1), LongFile(QueryLen, 1) })
    /\ InitDaemon(Constructor(config))
    /\ runtime = FullRuntime

NextCommand ==
    \/ \E arg \in RewardArgs : RewardCommand(arg)
    \/ LedgerCommandPlain
    \/ \E arg \in LedgerArgs : LedgerCommand(arg)
    \/ \E param \in ToolCounts : LedgerTool(param)
    \/ SaveMkdirDone
    \/ SaveWriteDone

SpecCommand == InitCommand /\ [][NextCommand]_vars

\* The daemon with its built-in tasks on a ledger in a degraded tier, so
\* that economy-check wakes urgently: the tick awaits the trigger command
\* and then the direct message to the boss.
HangStart == StartOf(HangTicks)

HangTimerFire(t) == TimerFireOf(t, HangTicks)

InitHang ==
    /\ InitEconomy({ StaleFile(1) })
    /\ InitDaemon(Constructor(config))
    /\ runtime = FullRuntime

NextHang ==
    \/ HangStart
    \/ Stop
    \/ DayPasses
    \/ \E t \in TimerIds : HangTimerFire(t)
    \/ \E i \in TickIds : LoopNext(i)
    \/ \E i \in TickIds : HandleResult(i)
    \/ \E i \in TickIds : TriggerReturns(i)
    \/ \E i \in TickIds : Track(i)
    \/ \E i \in TickIds : NotifyReturns(i)
    \/ \E i \in TickIds : TickSave(i)
    \/ \E i \in TickIds : TickMkdirDone(i)
    \/ \E i \in TickIds : TickWriteDone(i)
    \/ \E i \in TickIds : TickEnd(i)

\* What is bound to happen.  The code of the tick goes on once it has the
\* thread; the file system answers; an armed timer fires; and the trigger
\* command is called with "{ timeoutMs: 10_000 }", so the call settles.
\* "await sendMsg(this.opts.config.bossChatId, message)" carries no timeout:
\* nothing obliges the send to settle, and NotifyReturns is not in the list.
HangFairness ==
    /\ WF_vars(\E t \in TimerIds : HangTimerFire(t))
    /\ \A i \in TickIds :
          /\ WF_vars(LoopNext(i))
          /\ WF_vars(HandleResult(i))
          /\ WF_vars(TriggerReturns(i))
          /\ WF_vars(Track(i))
          /\ WF_vars(TickSave(i))
          /\ WF_vars(TickMkdirDone(i))
          /\ WF_vars(TickWriteDone(i))
          /\ WF_vars(TickEnd(i))

SpecHang == InitHang /\ [][NextHang]_vars /\ HangFairness

\* The daemon constructed with other configurations than the default one:
\* thinking switched off (0, or a negative number), and thinking intervals
\* that are no multiple of the heartbeat interval.
ThinkConfigs ==
    { [ heartbeatIntervalMs |-> 60000, thinkIntervalMs |-> ms ] :
        ms \in { 0 - 60000, 0, 20000, 60000, 90000, 120000, 150000 } }

ThinkCosts == { [ tokens |-> 60000, usd |-> 0 ], [ tokens |-> 230000, usd |-> 0 ] }

ThinkStart == StartOf(ThinkTicks)

ThinkTimerFire(t) == TimerFireOf(t, ThinkTicks)

ThinkTokenTracker == RecordExpenseOf(ThinkCosts, ThinkOps)

InitThink ==
    /\ InitEconomy({ FundedFile(1), StaleFile(1) })
    /\ \E cfg \in ThinkConfigs : InitDaemonWith(cfg, Constructor(cfg))
    /\ runtime = FullRuntime

NextThink ==
    \/ ThinkStart
    \/ ThinkTokenTracker
    \/ \E t \in TimerIds : ThinkTimerFire(t)
    \/ \E i \in TickIds : LoopNext(i)
    \/ \E i \in TickIds : HandleResult(i)
    \/ \E i \in TickIds : TriggerReturns(i)
    \/ \E i \in TickIds : Track(i)
    \/ \E i \in TickIds : NotifyReturns(i)
    \/ \E i \in TickIds : TickSave(i)
    \/ \E i \in TickIds : TickMkdirDone(i)
    \/ \E i \in TickIds : TickWriteDone(i)
    \/ \E i \in TickIds : TickEnd(i)

SpecThink == InitThink /\ [][NextThink]_vars

\* The running daemon that is never stopped: its built-in tasks on a ledger
\* in a degraded tier and a registered task that takes its time, where every
\* call the tick waits for returns or throws in the end.
LiveStart == StartOf(LiveTicks)

LiveTimerFire(t) == TimerFireOf(t, LiveTicks)

InitLive ==
    /\ InitEconomy({ StaleFile(1) })
    /\ InitDaemon(registerTask(Constructor(config), probeTask))
    /\ runtime = FullRuntime

NextLive ==
    \/ LiveStart
    \/ \E t \in TimerIds : LiveTimerFire(t)
    \/ \E i \in TickIds : LoopNext(i)
    \/ \E i \in TickIds : TaskReturns(i)
    \/ \E i \in TickIds : HandleResult(i)
    \/ \E i \in TickIds : TriggerReturns(i)
    \/ \E i \in TickIds : Track(i)
    \/ \E i \in TickIds : NotifyReturns(i)
    \/ \E i \in TickIds : TickSave(i)
    \/ \E i \in TickIds : TickMkdirDone(i)
    \/ \E i \in TickIds : TickWriteDone(i)
    \/ \E i \in TickIds : TickEnd(i)

\* An armed timer fires, the code of a tick goes on once it has the thread,
\* and every task run and every external call returns or throws.
LiveFairness ==
    /\ WF_vars(\E t \in TimerIds : LiveTimerFire(t))
    /\ \A i \in TickIds :
          /\ WF_vars(LoopNext(i))
          /\ WF_vars(TaskReturns(i))
          /\ WF_vars(HandleResult(i))
          /\ WF_vars(TriggerReturns(i))
          /\ WF_vars(Track(i))
          /\ WF_vars(NotifyReturns(i))
          /\ WF_vars(TickSave(i))
          /\ WF_vars(TickMkdirDone(i))
          /\ WF_vars(TickWriteDone(i))
          /\ WF_vars(TickEnd(i))

SpecLive == InitLive /\ [][NextLive]_vars /\ LiveFairness

\* The daemon on a ledger in a degraded tier, with a registered task whose
\* wakes may be urgent too, on hosts with and without the capability to
\* send the direct message.
NotifyStart == StartOf(NotifyTicks)

NotifyTimerFire(t) == TimerFireOf(t, NotifyTicks)

InitNotify ==
    /\ InitEconomy({ StaleFile(1) })
    /\ InitDaemon(registerTask(Constructor(config), reportEach))
    /\ runtime \in Runtimes

NextNotify ==
    \/ NotifyStart
    \/ \E t \in TimerIds : NotifyTimerFire(t)
    \/ \E i \in TickIds : LoopNext(i)
    \/ \E i \in TickIds : TaskReturns(i)
    \/ \E i \in TickIds : HandleResult(i)
    \/ \E i \in TickIds : TriggerReturns(i)
    \/ \E i \in TickIds : Track(i)
    \/ \E i \in TickIds : NotifyReturns(i)
    \/ \E i \in TickIds : TickSave(i)
    \/ \E i \in TickIds : TickMkdirDone(i)
    \/ \E i \in TickIds : TickWriteDone(i)
    \/ \E i \in TickIds : TickEnd(i)

SpecNotify == InitNotify /\ [][NextNotify]_vars

NextLedger ==
    \/ RecordIncome
    \/ RecordExpense
    \/ Refresh
    \/ Load
    \/ Save
    \/ SaveMkdirDone
    \/ SaveWriteDone
    \/ DayPasses

SpecLedger == InitLedger /\ [][NextLedger]_vars

\* ========================================================================
\* Claims
\* ========================================================================

\* C4: starting from the default state, after every recordIncome and
\* recordExpense call the token balance equals lifetimeTokensEarned minus
\* lifetimeTokensSpent and the currency balance equals lifetimeUsdcEarned
\* minus lifetimeUsdcSpent.
C4_BalanceIsEarnedMinusSpent ==
    /\ economy.state.balance.tokenCredits =
           economy.state.totals.lifetimeTokensEarned
             - economy.state.totals.lifetimeTokensSpent
    /\ economy.state.balance.usdcBalance =
           economy.state.totals.lifetimeUsdcEarned
             - economy.state.totals.lifetimeUsdcSpent

C4_Witness ==
    /\ economy.state.totals.lifetimeTokensEarned > 0
    /\ economy.state.totals.lifetimeTokensSpent > 0
    /\ economy.state.totals.lifetimeUsdcEarned > 0

\* C5: a recordIncome never makes the stored survival tier worse than it was
\* before the call, and a recordExpense never makes it better.
C5_TierMonotone ==
    [][ /\ RecordIncome =>
             ~tierWorse(getSurvivalTier(economy'), getSurvivalTier(economy))
        /\ RecordExpense =>
             ~tierWorse(getSurvivalTier(economy), getSurvivalTier(economy')) ]_vars

\* C6: in every reachable ledger state the stored survival tier is the
\* classification of the current token balance against the thresholds.
C6_TierMatchesBalance ==
    getSurvivalTier(economy) = TierOfBalance(economy.state.balance.tokenCredits)

\* C1: at most one execution of tick() is in progress at any time, whatever
\* the interleaving of start(), timer firings and tick completions and
\* however long a tick waits for its I/O.
C1_OneTickAtATime ==
    \A i, j \in TickIds : InProgress(i) /\ InProgress(j) => i = j

\* C2: once stop() has returned and until start() is called again, no new
\* tick begins executing.
C2_NoTickAfterStop ==
    [][ ~running /\ ~running' => tickCount' = tickCount ]_vars

\* C3: a registered task with interval N is run exactly once by each tick
\* whose counter is a multiple of N and by no other tick.
C3_RunsOnMultiplesOnly ==
    \A i \in TickIds :
        ticks[i].pc = "done" =>
            \A k \in 1..Len(tasks) :
                Cardinality({ r \in 1..Len(ticks[i].ran) :
                                ticks[i].ran[r] = tasks[k].name })
                    = IF i % tasks[k].intervalTicks = 0 THEN 1 ELSE 0

\* C7: whenever the immediate trigger command is issued for a wake, the
\* same message has been enqueued into the agent inbox before.
C7_TriggerOnlyAfterEnqueue ==
    \A k \in 1..Len(commands) : \E j \in 1..Len(inbox) : inbox[j] = commands[k]

\* C8: when the immediate trigger command of an urgent wake fails or times
\* out, the enqueued messages stay enqueued, the failure is only logged, and
\* the tick goes on from where it was: the event is tracked, and the
\* remaining tasks and the save follow.
C8_TriggerFailureIsOnlyLogged ==
    [][ \A i \in TickIds :
          ticks[i].pc = "trigger" /\ Len(ticks'[i].errors) > Len(ticks[i].errors)
            => /\ inbox' = inbox
               /\ ticks'[i] = [ ticks[i] EXCEPT !.pc = "track",
                                                !.errors = Append(@, "wake") ]
               /\ cur' = i
               /\ UNCHANGED <<running, timer, timers, tickCount, tasks,
                              recentEvents, commands, notifications, wakes>>
               /\ UNCHANGED ledgerVars ]_vars

C8_Witness ==
    \E i \in TickIds :
        /\ ticks[i].pc = "save"
        /\ ticks[i].errors = << "wake" >>
        /\ ticks[i].idx = Len(tasks) + 1
        /\ runtime.enqueue
        /\ Len(inbox) = Len(commands)
        /\ Len(commands) > 0

\* C9: after a ledger mutation that makes the tier strictly worse,
\* previousTier keeps the tier before the degradation until economy-check
\* has run, also when further mutations follow before that tick.
C9_DegradationStaysVisible ==
    undetected # "none" => getPreviousTier(economy) = undetected

\* C10: when economy-check runs first after a recordExpense that moved the
\* tier from T1 to a strictly worse T2, its result asks for an urgent wake
\* with a message naming T1 and T2, and the tick dispatches that result as an
\* urgent wake; when it runs first after a mutation that improved the tier,
\* its result asks for no wake.
C10_DegradationWakesUrgently ==
    [][ \A i \in TickIds :
          /\ ( /\ ticks[i].pc = "loop"
               /\ ticks'[i].pc = "result"
               /\ ticks'[i].task.name = "economy-check"
               /\ lastMutation.kind = "expense"
               /\ tierWorse(lastMutation.to, lastMutation.from) )
             => ticks'[i].result =
                  [ shouldWake |-> TRUE, urgent |-> TRUE,
                    message |-> <<"degraded", lastMutation.from, lastMutation.to>> ]
          /\ ( /\ ticks[i].pc = "loop"
               /\ ticks'[i].pc = "result"
               /\ ticks'[i].task.name = "economy-check"
               /\ tierWorse(lastMutation.from, lastMutation.to) )
             => ~ticks'[i].result.shouldWake
          /\ ( /\ ticks[i].pc = "result"
               /\ ticks'[i].pc # "result"
               /\ ticks[i].task.name = "economy-check"
               /\ ticks[i].result.urgent )
             => /\ Len(wakes') = Len(wakes) + 1
                /\ wakes'[Len(wakes')].urgent
                /\ wakes'[Len(wakes')].task = "economy-check"
                /\ wakes'[Len(wakes')].text.reason =
                      <<"economy-check", ticks[i].result.message>> ]_vars

C10_Witness ==
    /\ economy.state.balance.tokenCredits = 9000
    /\ \E k \in 1..Len(wakes) :
          /\ wakes[k].urgent
          /\ wakes[k].text.reason =
                <<"economy-check", <<"degraded", "normal", "hibernate">>>>
    /\ \E k \in 1..Len(commands) :
          commands[k].reason = <<"economy-check", <<"degraded", "normal", "hibernate">>>>

\* C11: a failure inside a tick (a task's run() throws, the wake dispatch
\* fails, the direct notification fails, the save fails) is logged and the
\* tick goes on from where it was: no task is skipped, every task found due
\* is run, the save follows the loop, and the tick of a timer arms the next
\* timer when it returns.
C11_FailuresAreIsolated ==
    [][ \A i \in TickIds :
          /\ Len(ticks'[i].errors) > Len(ticks[i].errors)
               => /\ ticks'[i].idx = ticks[i].idx
                  /\ ticks'[i].ran = ticks[i].ran
                  /\ ticks'[i].pc =
                        IF ticks[i].pc \in { "run", "notify" } THEN "loop"
                        ELSE IF ticks[i].pc \in { "result", "trigger" } THEN "track"
                        ELSE "end"
          /\ ticks[i].pc = "loop" /\ ticks'[i].idx = ticks[i].idx + 1
               => /\ ticks[i].idx <= Len(tasks)
                  /\ tickCount % tasks[ticks[i].idx].intervalTicks = 0
                       => ticks'[i].ran = Append(ticks[i].ran, tasks[ticks[i].idx].name)
          /\ ticks'[i].pc = "save" /\ ticks[i].pc # "save"
               => ticks[i].pc = "loop" /\ ticks[i].idx = Len(tasks) + 1
          /\ ticks'[i].pc = "end" /\ ticks[i].pc # "end"
               => ticks[i].pc \in { "save", "saving" }
          /\ ticks'[i].pc = "done" /\ ticks[i].pc # "done"
               => /\ ticks[i].pc = "end"
                  /\ ticks[i].viaTimer /\ running
                       => timer' \in timers' /\ timer' \notin timers ]_vars

C11_Witness ==
    \E i \in TickIds :
        /\ ticks[i].pc = "end"
        /\ ticks[i].viaTimer
        /\ running
        /\ ticks[i].errors = << "wake", "notify", "task", "save" >>
        /\ ticks[i].ran = << "economy-check", "probe", "audit" >>

\* C12: in the registry of the daemon the names are unique and the entry of
\* a name is the task most recently registered under it; a task that a tick
\* runs is the most recently registered one of its name, and a tick during
\* which the registry was not changed runs no name twice and runs every
\* task that is due on each tick exactly once.
C12_RegistryNamesUnique ==
    /\ [](/\ \A a, b \in 1..Len(tasks) : tasks[a].name = tasks[b].name => a = b
          /\ \A k \in 1..Len(tasks) : tasks[k] = lastRegistered[tasks[k].name]
          /\ \A n \in Names : lastRegistered[n] # NoTask => findIndex(tasks, n) > 0)
    /\ [][ \A i \in TickIds :
             /\ ticks[i].pc = "loop" /\ Len(ticks'[i].ran) > Len(ticks[i].ran)
                  => /\ ticks'[i].task = lastRegistered[ticks'[i].task.name]
                     /\ ticks'[i].ran = Append(ticks[i].ran, ticks'[i].task.name)
             /\ ticks[i].pc = "loop" /\ ticks'[i].pc = "save" /\ ~ticks[i].touched
                  => \A n \in Names :
                        lastRegistered[n] # NoTask
                          => LET runs == Cardinality({ k \in 1..Len(ticks[i].ran) :
                                                         ticks[i].ran[k] = n })
                             IN  /\ runs <= 1
                                 /\ lastRegistered[n].intervalTicks = 1 => runs = 1 ]_vars

C12_Witness ==
    /\ \E k \in 1..Len(tickets) :
          tickets[k].op = "register" /\ tickets[k].direct /\ tickets[k].task = probeTask
    /\ lastRegistered["probe"] = probeLater
    /\ lastRegistered["audit"] = auditTask
    /\ \E i \in TickIds :
          /\ ticks[i].pc = "save"
          /\ ~ticks[i].touched
          /\ ticks[i].ran = << "economy-check", "probe", "audit" >>

\* C13: whenever the service has started and the daemon is active, no task
\* is left in the pending queue: what was submitted before is in the
\* registry of the daemon.
C13_NoPendingWhileActive ==
    daemonUp => pendingTasks = << >>

\* C14: once the daemon is active and the pending queue is empty, the
\* registry holds, for every name whose most recent call was a register
\* call, the task of that call.
C14_LastRegisterWins ==
    daemonUp /\ pendingTasks = << >>
      => \A n \in Names :
            LET calls == { k \in 1..Len(tickets) : tickets[k].name = n }
                last == CHOOSE k \in calls : \A j \in calls : j <= k
            IN  calls # {} /\ tickets[last].op = "register"
                  => /\ findIndex(tasks, n) > 0
                     /\ tasks[findIndex(tasks, n)] = tickets[last].task

\* C15: an unregister call made while no daemon is active returns whether a
\* task of that name was pending, leaves no task of that name in the pending
\* queue, and leaves the queue as it was when it returns false.
C15_UnregisterClearsPending ==
    [][ LET call == tickets'[Len(tickets')]
        IN  Len(tickets') > Len(tickets) /\ call.op = "unregister" /\ ~call.direct
              => /\ call.value = (\E k \in 1..Len(pendingTasks) :
                                     pendingTasks[k].name = call.name)
                 /\ \A k \in 1..Len(pendingTasks') : pendingTasks'[k].name # call.name
                 /\ ~call.value => pendingTasks' = pendingTasks ]_vars

\* C16: every wake that was dispatched is in the event history, or its tick
\* is still at the dispatch or about to record it; the tick that dispatched a
\* wake records it as one entry, with the task's name, message and urgency,
\* before it calls the next task, whatever became of the enqueue and of the
\* trigger command.
C16_EveryWakeIsRecorded ==
    /\ [](Len(wakes) = Len(recentEvents)
             + Cardinality({ i \in TickIds : ticks[i].pc \in { "trigger", "track" } }))
    /\ [][ \A i \in TickIds :
             /\ Len(wakes') > Len(wakes) /\ cur = i
                  => ticks'[i].pc \in { "trigger", "track" }
             /\ ticks[i].pc = "trigger" /\ ticks'[i] # ticks[i]
                  => ticks'[i].pc = "track" /\ recentEvents' = recentEvents
             /\ ticks[i].pc = "track" /\ ticks'[i] # ticks[i]
                  => recentEvents' =
                        Append(recentEvents,
                               [ taskName |-> ticks[i].task.name,
                                 message |-> ticks[i].result.message,
                                 urgent |-> ticks[i].result.urgent ])
             /\ Len(ticks'[i].ran) > Len(ticks[i].ran) => ticks[i].pc = "loop" ]_vars

C16_Witness ==
    /\ Len(wakes) >= 2
    /\ Len(recentEvents) = Len(wakes)
    /\ \E k \in 1..Len(recentEvents) : recentEvents[k].urgent
    /\ \E k \in 1..Len(recentEvents) : ~recentEvents[k].urgent
    /\ inbox = << >>
    /\ commands = << >>
    /\ \E i \in TickIds : \E k \in 1..Len(ticks[i].errors) : ticks[i].errors[k] = "wake"

\* C17: the event history never holds more than MAX_RECENT_EVENTS entries:
\* it is the newest min(MAX_RECENT_EVENTS, total) of all the wakes recorded
\* so far, oldest first; and the context packed for a wake lists the newest
\* min(RecentShown, size) entries of the history as it is at that moment.
C17_HistoryIsTheNewestTwenty ==
    /\ [](LET pending == Cardinality({ i \in TickIds :
                                          ticks[i].pc \in { "trigger", "track" } })
              total == Len(wakes) - pending
              size == IF total < MAX_RECENT_EVENTS THEN total ELSE MAX_RECENT_EVENTS
          IN  /\ Len(recentEvents) <= MAX_RECENT_EVENTS
              /\ Len(recentEvents) = size
              /\ \A j \in 1..size :
                    LET w == wakes[total - size + j]
                    IN  recentEvents[j] = [ taskName |-> w.task,
                                            message |-> w.text.reason[2],
                                            urgent |-> w.urgent ])
    /\ [][ Len(wakes') > Len(wakes)
             => LET shown == wakes'[Len(wakes')].text.events
                    size == Len(recentEvents)
                    n == IF size < RecentShown THEN size ELSE RecentShown
                IN  /\ Len(shown) = n
                    /\ \A j \in 1..n : shown[j] = recentEvents[size - n + j] ]_vars

C17_Witness ==
    /\ Len(wakes) = MaxPast + 2
    /\ Len(recentEvents) = MAX_RECENT_EVENTS
    /\ recentEvents[MAX_RECENT_EVENTS] =
          [ taskName |-> "report", message |-> << "alert" >>, urgent |-> TRUE ]
    /\ recentEvents[MAX_RECENT_EVENTS - 1] =
          [ taskName |-> "report", message |-> << "alert" >>, urgent |-> FALSE ]
    /\ recentEvents[1] = pastEvent(MaxPast + 2 - MAX_RECENT_EVENTS + 1)
    /\ Len(wakes[Len(wakes)].text.events) = RecentShown

\* C18: whenever the task that a tick called returns a result with
\* shouldWake, the tick dispatches a wake for it and goes on to record the
\* event, whatever the message of the result is.
C18_ShouldWakeAlwaysWakes ==
    [][ \A i \in TickIds :
          ticks[i].pc = "result" /\ ticks[i].result.shouldWake /\ ticks'[i] # ticks[i]
            => /\ Len(wakes') = Len(wakes) + 1
               /\ wakes'[Len(wakes')].task = ticks[i].task.name
               /\ ticks'[i].pc \in { "trigger", "track" } ]_vars

\* C19: after any sequence of recordIncome and recordExpense calls the
\* ledger holds at most MaxLedger entries: the newest min(MaxLedger,
\* appended) of all the entries appended, oldest first.
C19_LedgerIsTheNewestFiveHundred ==
    LET total == Len(appended)
        size == IF total < MaxLedger THEN total ELSE MaxLedger
    IN  /\ Len(economy.state.ledger) <= MaxLedger
        /\ Len(economy.state.ledger) = size
        /\ \A j \in 1..size : economy.state.ledger[j] = appended[total - size + j]

C19_Witness ==
    /\ nOps = CapOps
    /\ Len(appended) = MaxLedger + 2
    /\ Len(economy.state.ledger) = MaxLedger
    /\ economy.state.ledger[1] = pastEntry(3)
    /\ economy.state.ledger[MaxLedger].direction = "expense"
    /\ economy.state.ledger[MaxLedger - 1].direction = "income"

\* C20: the day rollover inside load, refresh, recordIncome and
\* recordExpense sets today's counters to zero and stamps the date of the
\* clock exactly when the stored date is not the date of the clock, and
\* leaves them alone otherwise, so the counters of a day add up over the
\* operations of that day; it changes nothing else: after refresh the
\* balances, totals, tiers and ledger are as before, after load they are
\* those of the file, and after a recordIncome or recordExpense call they
\* differ from before by that call's amounts and entry only.
C20_RolloverOncePerDateChange ==
    [][ LET old == economy.state
            new == economy'.state
            stale == old.today.date # clock
            zero == [ date |-> clock, tokensEarned |-> 0, tokensSpent |-> 0,
                      usdcEarned |-> 0, usdcSpent |-> 0, llmCalls |-> 0 ]
            base == IF stale THEN zero ELSE old.today
            earned == new.totals.lifetimeTokensEarned - old.totals.lifetimeTokensEarned
            spent == new.totals.lifetimeTokensSpent - old.totals.lifetimeTokensSpent
            paid == new.totals.lifetimeUsdcEarned - old.totals.lifetimeUsdcEarned
        IN  /\ Refresh
                 => /\ new = [ old EXCEPT !.today = base ]
                    /\ economy'.dirty = (economy.dirty \/ stale)
            /\ Load /\ disk.kind = "doc"
                 => new = [ disk.doc EXCEPT !.today =
                               IF disk.doc.today.date # clock THEN zero
                               ELSE disk.doc.today ]
            /\ RecordIncome
                 => /\ new.today = [ base EXCEPT !.tokensEarned = @ + earned,
                                                 !.usdcEarned = @ + paid ]
                    /\ new.balance.tokenCredits = old.balance.tokenCredits + earned
                    /\ new.balance.usdcBalance = old.balance.usdcBalance + paid
                    /\ spent = 0
                    /\ new.ledger = Append(old.ledger, new.ledger[Len(new.ledger)])
            /\ RecordExpense
                 => /\ [ new.today EXCEPT !.usdcSpent = 0 ]
                         = [ base EXCEPT !.tokensSpent = @ + spent,
                                         !.llmCalls = @ + 1,
                                         !.usdcSpent = 0 ]
                    /\ new.today.usdcSpent >= base.usdcSpent
                    /\ new.balance.tokenCredits = old.balance.tokenCredits - spent
                    /\ new.balance.usdcBalance = old.balance.usdcBalance
                    /\ earned = 0 /\ paid = 0
                    /\ \/ new.ledger = old.ledger
                       \/ new.ledger = Append(old.ledger, new.ledger[Len(new.ledger)]) ]_vars

C20_Witness ==
    /\ clock = 2
    /\ economy.state.today.date = 2
    /\ economy.state.today.llmCalls = 2
    /\ economy.state.today.tokensSpent > 0
    /\ economy.state.totals.lifetimeTokensSpent > economy.state.today.tokensSpent
    /\ Len(economy.state.ledger) >= 2

C22_TodaySpentWithinLifetime ==
    /\ economy.state.today.tokensSpent <= economy.state.totals.lifetimeTokensSpent
    /\ economy.state.today.usdcSpent <= economy.state.totals.lifetimeUsdcSpent

\* C23: when the ledger file is missing, unreadable or unparsable, load()
\* returns normally with the default state: zero balances and totals, no
\* entries, the default thresholds and the date of the clock; the service
\* goes on to start the daemon, whose first tick begins and whose timer is
\* armed.
C23_LoadFallsBackToDefault ==
    [][ ServiceLoaded /\ disk.kind \in { "none", "unreadable", "corrupt" }
          => /\ economy'.state.balance.tokenCredits = 0
             /\ economy'.state.balance.usdcBalance = 0
             /\ \A f \in DOMAIN economy'.state.totals : economy'.state.totals[f] = 0
             /\ economy'.state.today =
                   [ date |-> clock, tokensEarned |-> 0, tokensSpent |-> 0,
                     usdcEarned |-> 0, usdcSpent |-> 0, llmCalls |-> 0 ]
             /\ economy'.state.ledger = << >>
             /\ economy'.state.config.survivalThresholds =
                   [ rich |-> 1000000, normal |-> 200000, tight |-> 50000,
                     danger |-> 10000, hibernate |-> 0 ]
             /\ economy'.state = createDefaultState(clock)
             /\ running'
             /\ tickCount' = tickCount + 1
             /\ ticks'[tickCount'].pc = "loop"
             /\ timer' \in timers' ]_vars

C23_Witness ==
    /\ disk.kind = "corrupt"
    /\ clock = 2
    /\ service = "started"
    /\ economy.state = createDefaultState(2)
    /\ tickCount = 2
    /\ ticks[1].pc = "done"
    /\ ticks[2].pc = "done"
    /\ ticks[2].ran = << "economy-check" >>

\* C24: save() is a no-op when the dirty flag is clear and attempts a write
\* when it is set; the file changes only in a save that was called with the
\* flag set; a write that succeeded leaves the written document in the file
\* and the flag clear; a failed mkdir or a failed write returns normally and
\* leaves the state and the flag, which is set, as they were, so that the
\* next save() attempts the write again.
C24_SaveWritesWhenDirty ==
    [][ /\ Save
             => IF economy.dirty
                THEN saves'[External].pc = "mkdir" /\ economy' = economy /\ disk' = disk
                ELSE UNCHANGED vars
        /\ disk' # disk => saves[External].pc = "write" /\ economy.dirty
        /\ saves[External].pc = "mkdir" /\ saves'[External].pc = "idle"
             => economy' = economy /\ economy.dirty /\ disk' = disk
        /\ saves[External].pc = "write" /\ saves'[External].pc = "idle"
             => \/ /\ disk' = [ kind |-> "doc", doc |-> saves[External].doc ]
                   /\ economy' = [ economy EXCEPT !.dirty = FALSE ]
                \/ /\ disk' \in { disk, CorruptFile(1) }
                   /\ economy' = economy
                   /\ economy.dirty ]_vars

C24_Witness ==
    /\ disk.kind = "corrupt"
    /\ saves[External].pc = "write"
    /\ economy.dirty
    /\ saves[External].doc = economy.state

\* C25: a call of log() never raises, whatever fails underneath, and what
\* it returns is the id it generated.
C25_LogAlwaysReturnsTheId ==
    \A c \in LogCallers :
        /\ logCalls[c].pc # "raised"
        /\ logCalls[c].pc = "returned"
             => logCalls[c].result = logCalls[c].decision.id /\ logCalls[c].result > 0

\* C26: getRecent(n) returns the min(n, total) decisions most recently
\* logged, the newest first: they are the last ones appended, latest
\* append first, and they are in descending order of their time.
C26_RecentAreTheNewestFirst ==
    \A n \in 0..(MaxLogs + 1) :
        LET recent == getRecent(decisionDir, n)
            total == Len(logged)
            size == IF n < total THEN n ELSE total
        IN  /\ Len(recent) = size
            /\ \A j \in 1..size : recent[j] = logged[total - j + 1]
            /\ \A j, k \in 1..size : j < k => recent[j].id > recent[k].id

\* C27: "/moss reward <amount>" with an amount that is not a positive
\* decimal number is answered with an error and changes nothing of the
\* ledger, in memory or on disk; with a positive integer it appends one
\* income entry of that amount, adds it to the balance and saves.
C27_RewardRejectsBadAmounts ==
    [][ \A arg \in RewardArgs :
          RewardCommand(arg)
            => IF /\ \A k \in 1..Len(arg) : isDigit(arg[k])
                  /\ \E k \in 1..Len(arg) : arg[k] # "0"
               THEN /\ ~reply'.rejected
                    /\ appended' = Append(appended,
                                          [ type |-> "boss_task_reward",
                                            direction |-> "income",
                                            amount |-> decimal(arg),
                                            unit |-> "tokens" ])
                    /\ economy'.state.ledger = Append(economy.state.ledger,
                                                      appended'[Len(appended')])
                    /\ economy'.state.balance.tokenCredits
                         = economy.state.balance.tokenCredits + decimal(arg)
                    /\ saves'[External].pc = "mkdir"
               ELSE /\ reply'.rejected
                    /\ UNCHANGED <<economy, disk, saves, appended>> ]_vars

\* C28: the ledger query with count N answers with at most N entries: the
\* min(N, size) last entries of the ledger, in the ledger's order, for N
\* zero, small, and larger than the ledger; N is 10 when no count is given.
C28_LedgerQueryReturnsLastN ==
    [][ /\ \A param \in ToolCounts :
             LedgerTool(param)
               => LET N == IF param.given THEN param.value ELSE 10
                      size == Len(economy.state.ledger)
                      n == IF N < size THEN N ELSE size
                  IN  /\ Len(reply'.entries) <= N
                      /\ reply'.entries = SubSeq(economy.state.ledger,
                                                 size - n + 1, size)
        /\ \A arg \in LedgerArgs :
             LedgerCommand(arg) /\ (\A k \in 1..Len(arg) : isDigit(arg[k]))
               => LET N == decimal(arg)
                      size == Len(economy.state.ledger)
                      n == IF N < size THEN N ELSE size
                  IN  /\ Len(reply'.entries) <= N
                      /\ reply'.entries = SubSeq(economy.state.ledger,
                                                 size - n + 1, size)
        /\ LedgerCommandPlain
             => LET size == Len(economy.state.ledger)
                    n == IF 10 < size THEN 10 ELSE size
                IN  reply'.entries = SubSeq(economy.state.ledger, size - n + 1, size) ]_vars

\* C29: no call the tick waits for can hold the schedule for ever: a tick
\* that has begun ends, whether or not the immediate trigger command and the
\* direct message to the boss are ever answered, and the tick that the timer
\* started then arms the next timer while the daemon is running.
C29_TickEndsWhateverHangs ==
    /\ \A i \in TickIds : (ticks[i].pc = "loop") ~> (ticks[i].pc = "done")
    /\ [][\A i \in TickIds :
            (ticks[i].pc = "end" /\ ticks'[i].pc = "done" /\ ticks[i].viaTimer /\ running)
                => timer' \in timers']_vars

\* C30: periodic-thinking is in the registry exactly when thinkIntervalMs is
\* positive; with K the quotient thinkIntervalMs / heartbeatIntervalMs
\* rounded to the nearest integer (a half rounds up) and at least 1, the
\* tick whose counter is n runs it exactly when n is a multiple of K; its
\* run asks for no wake when the stored tier is danger or hibernate; and a
\* wake it asks for is not urgent: no trigger command and no direct message
\* to the boss come from it.
C30_ThinkingTaskSchedule ==
    /\ []((\E k \in 1..Len(tasks) : tasks[k].name = "periodic-thinking")
            <=> pluginConfig.thinkIntervalMs > 0)
    /\ [](LET think == pluginConfig.thinkIntervalMs
              beat == pluginConfig.heartbeatIntervalMs
              nearest == CHOOSE r \in (0 - MostRatio)..MostRatio :
                            /\ (2 * r - 1) * beat <= 2 * think
                            /\ 2 * think < (2 * r + 1) * beat
              K == IF nearest < 1 THEN 1 ELSE nearest
              ranIn(i) == \E k \in 1..Len(ticks[i].ran) :
                              ticks[i].ran[k] = "periodic-thinking"
          IN  \A i \in TickIds :
                ticks[i].pc \in { "save", "saving", "end", "done" }
                    => (ranIn(i) <=> (think > 0 /\ i % K = 0)))
    /\ [](\A k \in 1..Len(wakes) :
            wakes[k].task = "periodic-thinking" => ~wakes[k].urgent)
    /\ [][\A i \in TickIds :
            /\ (ticks[i].pc = "loop" /\ ticks'[i].pc = "result"
                    /\ ticks'[i].task.name = "periodic-thinking")
                => /\ ~ticks'[i].result.urgent
                   /\ getSurvivalTier(economy) \in { "danger", "hibernate" }
                        => ~ticks'[i].result.shouldWake
            /\ (cur = i /\ ticks[i].task.name = "periodic-thinking"
                    /\ ticks[i].pc \in { "result", "track" })
                => /\ commands' = commands
                   /\ notifications' = notifications]_vars

\* C31: a degradation of the tier is reported once: when economy-check has
\* reported one and runs again with no ledger mutation since its last run,
\* it asks for no further wake, so no second urgent wake and no second
\* direct message go out for the same transition.
C31_DegradationReportedOnce ==
    [][\A i \in TickIds :
        (/\ ticks[i].pc = "loop"
         /\ ticks'[i].pc = "result"
         /\ ticks'[i].task.name = "economy-check"
         /\ lastMutation = NoMutation
         /\ \E k \in 1..Len(wakes) : wakes[k].task = "economy-check")
            => ~ticks'[i].result.shouldWake]_vars

\* C32: no ledger mutation is lost to persistence: whenever the dirty flag
\* is clear and no call of save() is in progress, the ledger file holds the
\* state that is in memory (what load() would read from it is that state).
C32_CleanMeansPersisted ==
    (~economy.dirty /\ \A c \in Savers : saves[c].pc = "idle")
        => load(disk, economy.state.today.date).state = economy.state

\* C33: at most one tick timer is armed at any time, whatever the order of
\* start(), stop(), the firing of timers and the completion of ticks.
C33_AtMostOneTimerPending == Cardinality(timers) <= 1

\* C34: a change of the registry made while a tick waits does not disturb
\* the other tasks of the tick: when the loop of a tick during which tasks
\* were registered or unregistered is over, every task that was not among
\* them, is in the registry and is due at every tick has been run exactly
\* once by that tick.
C34_OtherTasksRunExactlyOnce ==
    \A i \in TickIds :
        (ticks[i].pc \in { "save", "saving", "end" } /\ ticks[i].changed # {})
            => \A k \in 1..Len(tasks) :
                  (tasks[k].name \notin ticks[i].changed /\ tasks[k].intervalTicks = 1)
                      => Cardinality({ r \in 1..Len(ticks[i].ran) :
                                          ticks[i].ran[r] = tasks[k].name }) = 1

\* C35: while the daemon is running and every task run and external call
\* returns or throws, every tick that has begun completes, and the ticks
\* keep coming: the counter reaches every value the run allows.
C35_TicksKeepComing ==
    /\ \A i \in TickIds : (ticks[i].pc = "loop") ~> (ticks[i].pc = "done")
    /\ running ~> (tickCount = LiveTicks)

C35_Witness ==
    /\ running
    /\ tickCount = LiveTicks
    /\ \A i \in 1..LiveTicks : ticks[i].pc = "done"
    /\ \E i \in 1..LiveTicks : \E k \in 1..Len(ticks[i].ran) : ticks[i].ran[k] = "probe"
    /\ timer \in timers

\* C36: the direct message to the boss is sent only for an urgent wake of
\* economy-check, after that wake was dispatched and recorded in the recent
\* events, and once per such wake; when the send fails, or the host cannot
\* send, nothing is sent again and the tick goes on with its loop.
C36_DirectMessageOnlyForUrgentEconomyCheck ==
    /\ [](Len(notifications) <=
            Cardinality({ k \in 1..Len(wakes) :
                            wakes[k].task = "economy-check" /\ wakes[k].urgent }))
    /\ [][notifications' # notifications =>
            \E i \in TickIds :
                /\ cur = i
                /\ ticks[i].pc = "track"
                /\ ticks[i].task.name = "economy-check"
                /\ ticks[i].result.urgent
                /\ notifications' = Append(notifications, ticks[i].result.message)
                /\ \E k \in 1..Len(wakes) :
                      /\ wakes[k].task = "economy-check"
                      /\ wakes[k].urgent
                      /\ wakes[k].text.reason = <<"economy-check", ticks[i].result.message>>
                /\ recentEvents' # << >>
                /\ recentEvents'[Len(recentEvents')] =
                      [ taskName |-> "economy-check",
                        message |-> ticks[i].result.message, urgent |-> TRUE ]]_vars
    /\ [][\A i \in TickIds :
            /\ (ticks[i].pc = "notify" /\ ticks'[i].pc # "notify")
                => (ticks'[i].pc = "loop" /\ ticks'[i].idx = ticks[i].idx
                        /\ notifications' = notifications)
            /\ (cur = i /\ ticks[i].pc = "track" /\ ~runtime.telegram)
                => (ticks'[i].pc = "loop" /\ notifications' = notifications)]_vars

C36_Witness ==
    /\ notifications # << >>
    /\ \E k \in 1..Len(wakes) : wakes[k].task = "report" /\ wakes[k].urgent
    /\ \E i \in TickIds :
          /\ ticks[i].pc = "end"
          /\ \E e \in 1..Len(ticks[i].errors) : ticks[i].errors[e] = "notify"
          /\ \E r \in 1..Len(ticks[i].ran) : ticks[i].ran[r] = "report"

\* C37: a line of the decision log that does not parse is skipped by itself:
\* getRecent(n) returns what it returns for the same files without their
\* unparsable lines, which is the min(n, total) newest of the lines that
\* parse: none of them is dropped and the scan does not fail.
C37_MalformedLinesAreSkipped ==
    LET wellFormed == [ decisionDir EXCEPT !.files =
                          [ d \in Days |->
                              SelectSeq(decisionDir.files[d], LAMBDA l : l.parses) ] ]
        total == Len(wellFormed.files[1]) + Len(wellFormed.files[2])
        newestFirst == Reverse(wellFormed.files[2]) \o Reverse(wellFormed.files[1])
    IN  \A n \in 0..(MaxLogs + 1) :
            /\ getRecent(decisionDir, n) = getRecent(wellFormed, n)
            /\ Len(getRecent(decisionDir, n)) = (IF n < total THEN n ELSE total)
            /\ \A j \in 1..Len(getRecent(decisionDir, n)) :
                  getRecent(decisionDir, n)[j] = newestFirst[j].decision

C37_Witness ==
    \E d \in Days : \E j, k \in 1..Len(decisionDir.files[d]) :
        /\ j < k
        /\ decisionDir.files[d][j].parses
        /\ ~decisionDir.files[d][k].parses
        /\ getRecent(decisionDir, MaxLogs) # << >>

\* C38: a task that went into the registry through the registration API,
\* with no unregister call for its name since, is in the registry of the
\* started service, and a tick during which the registry did not change
\* has run it when it is due at every tick.
C38_RegisteredUntilUnregistered ==
    \A k \in 1..Len(tickets) :
        (/\ tickets[k].op = "register"
         /\ tickets[k].direct
         /\ \A j \in (k + 1)..Len(tickets) : tickets[j].name # tickets[k].name
         /\ daemonUp)
            => /\ findIndex(tasks, tickets[k].name) > 0
               /\ \A i \in TickIds :
                    (/\ ticks[i].pc \in { "save", "saving", "end" }
                     /\ ~ticks[i].touched
                     /\ tasks[findIndex(tasks, tickets[k].name)].intervalTicks = 1)
                        => \E r \in 1..Len(ticks[i].ran) :
                              ticks[i].ran[r] = tickets[k].name

====
